---- MODULE Spec2Model ----
(***************************************************************************)
(* NavCloud auth-service: the OAuth state tracker, the token and session   *)
(* service, the RBAC gate and the LMS domain store, as a state machine.    *)
(*                                                                         *)
(* Time is one clock `now` in abstract ticks: the service reads deps.now() *)
(* and jsonwebtoken reads Date.now(), which production wires to the same   *)
(* clock (createAuthApp(env, {now: () => new Date(), ...})).               *)
(* Strings are TLA+ strings, so that the template literals of the store    *)
(* (`${a}:${b}`) are real concatenations.                                  *)
(***************************************************************************)
EXTENDS Integers, Sequences, FiniteSets, TLC

VARIABLES
    now,                    \* the clock, in ticks
    nextId,                 \* how many ids deps.randomId() has handed out
    env,                    \* the parsed configuration (Env)
    oauthStates,            \* Map<state, issuedAt>
    usersByEmail,           \* Map<normalized email, User>
    usersById,              \* Map<id, User>
    subscriptionsByUserId,  \* Map<userId, SubscriptionRecord>
    refreshSessions,        \* Map<sessionId, RefreshSession>
    pendingExchange,        \* callbacks suspended at await exchangeCodeForProfile
    refreshRequests,        \* refresh requests received, not yet handled: token -> count
    issuedTokens,           \* every token a response has carried to a client
    issuedStates,           \* history: every state start has returned -> its issue time
    courses, modules, lessons, enrollments, progress, lessonContent,
    moduleIdsByCourse, lessonIdsByModule, enrollmentIdsByCourse,
    progressIdsByEnrollment, enrollmentByCourseUser,
    resp,                   \* the response of the request handled last
    rotatedTokens,          \* history: refresh token -> when its rotation succeeded
    loggedOutTokens,        \* history: refresh tokens a logout has succeeded for
    consumedStates,         \* history: states a callback has looked up
    acceptedStates,         \* history: state -> callbacks that passed the state check
    successors,             \* history: refresh token -> sessions issued by rotating it
    racedTokens,            \* history: tokens rotated while another request held them
    logins                  \* history: the token pairs the callbacks have issued

authVars == <<now, nextId, env, oauthStates, usersByEmail, usersById,
              refreshSessions, pendingExchange, refreshRequests, issuedTokens,
              issuedStates>>
lmsVars == <<courses, modules, lessons, enrollments, progress, lessonContent,
             moduleIdsByCourse, lessonIdsByModule, enrollmentIdsByCourse,
             progressIdsByEnrollment, enrollmentByCourseUser>>
histVars == <<rotatedTokens, loggedOutTokens, consumedStates, acceptedStates,
              successors, racedTokens, logins>>
vars == <<authVars, subscriptionsByUserId, lmsVars, resp, histVars>>

-----------------------------------------------------------------------------
(* Bounds of the model *)

MaxTime == 2            \* the clock stops ticking here
MaxIds == 4             \* ids deps.randomId() may hand out in one run
MaxStarts == 1          \* OAuth states GET /auth/google/start may issue in one run
MaxInFlight == 2        \* refresh requests received and not yet handled, at once

-----------------------------------------------------------------------------
(* Maps *)

EmptyMap == [k \in {} |-> 0]
Has(m, k) == k \in DOMAIN m
Put(m, k, v) == [x \in (DOMAIN m) \cup {k} |-> IF x = k THEN v ELSE m[x]]
Del(m, k) == [x \in (DOMAIN m) \ {k} |-> m[x]]

NoTime == -1            \* null / undefined for a Date
NoId == ""              \* undefined for a string claim

-----------------------------------------------------------------------------
(* Configuration and injected dependencies *)

\* The hard-coded validity window of an OAuth state (10 minutes), in ticks.
OAuthStateTtl == 1

\* Configurations envSchema accepts: the TTLs are any positive integers and
\* the two secrets any strings of 32 characters or more (possibly equal).
Envs ==
    { [accessTtl |-> 1, refreshTtl |-> 2, accessSecret |-> "A", refreshSecret |-> "R",
       deliverySecret |-> "D", deliveryTtl |-> 1],
      [accessTtl |-> 2, refreshTtl |-> 2, accessSecret |-> "K", refreshSecret |-> "K",
       deliverySecret |-> "D", deliveryTtl |-> 1] }

IdPool == <<"id1", "id2", "id3", "id4", "id5", "id6", "id7", "id8", "id9", "id10",
           "id11", "id12", "id13">>
\* deps.randomId(): the n-th id handed out (crypto.randomUUID never repeats)
randomId(n) == IdPool[n + 1]

\* Emails the identity provider may return, and String.prototype.toLowerCase
Emails == {"admin@nav", "inst@nav", "stud@nav", "STUD@nav", "stud2@nav", "both@nav"}

\* A lower-casing that leaves every letter as it is
toLowerCaseKeeps(e) == e

toLowerCase(e) == IF e = "STUD@nav" THEN "stud@nav" ELSE e

adminEmails == {"admin@nav", "both@nav"}
instructorEmails == {"inst@nav", "both@nav"}

\* A roleForEmail that looks at the instructor list first
roleForEmailInstructorFirst(email) ==
    IF email \in instructorEmails THEN "Instructor"
    ELSE IF email \in adminEmails THEN "Admin"
    ELSE "Student"

roleForEmail(email) ==
    LET normalized == toLowerCase(email)
    IN  IF normalized \in adminEmails THEN "Admin"
        ELSE IF normalized \in instructorEmails THEN "Instructor"
        ELSE "Student"

-----------------------------------------------------------------------------
(* jsonwebtoken and crypto *)

\* sha256 is collision free on the tokens of a run
sha256(input) == <<"sha256", input>>

\* jwt.sign(payload, secret, {expiresIn}): exp = iat + expiresIn
jwtSign(payload, secret, expiresIn) ==
    [payload EXCEPT !.exp = now + expiresIn, !.sig = secret]

\* jwt.verify with the expiry compared one tick late
jwtVerifyLate(token, secret) ==
    IF token.sig # secret THEN "invalid"
    ELSE IF now > token.exp THEN "expired"
    ELSE "ok"

\* jwt.verify(token, secret): the signature first, then the expiry
\* (TokenExpiredError when the clock has reached exp)
jwtVerify(token, secret) ==
    IF token.sig # secret THEN "invalid"
    ELSE IF now >= token.exp THEN "expired"
    ELSE "ok"

Claims == [type |-> "", sub |-> NoId, sid |-> NoId, email |-> NoId, role |-> "",
           tokenVersion |-> 0, exp |-> 0, sig |-> ""]

\* Tokens no response ever carried, signed with a key that is not the
\* service's: one shaped like a refresh token, one like an Admin's access token.
ForgedRefreshToken ==
    [Claims EXCEPT !.type = "refresh", !.sub = "id2", !.sid = "id3",
                   !.tokenVersion = 1, !.exp = MaxTime + 10, !.sig = "forged"]
ForgedAccessToken ==
    [Claims EXCEPT !.type = "access", !.sub = "id2", !.role = "Admin",
                   !.tokenVersion = 1, !.exp = MaxTime + 10, !.sig = "forged"]

-----------------------------------------------------------------------------
(* Token and session service *)

getOrCreateSubscription(subs, userId) ==
    IF Has(subs, userId) THEN subs
    ELSE Put(subs, userId, [userId |-> userId, plan |-> "free"])

signAccessToken(user) ==
    jwtSign([Claims EXCEPT !.type = "access", !.sub = user.id, !.email = user.email,
                           !.role = user.role, !.tokenVersion = user.tokenVersion],
            env.accessSecret, env.accessTtl)

signRefreshToken(user, sessionId) ==
    jwtSign([Claims EXCEPT !.type = "refresh", !.sub = user.id, !.sid = sessionId,
                           !.tokenVersion = user.tokenVersion],
            env.refreshSecret, env.refreshTtl)

\* issueRefreshToken: the token and the session stored for it
issueRefreshToken(user, sessionId) ==
    LET token == signRefreshToken(user, sessionId)
    IN  [token |-> token,
         session |-> [sessionId |-> sessionId, userId |-> user.id,
                      tokenHash |-> sha256(token),
                      expiresAt |-> now + env.refreshTtl,
                      revokedAt |-> NoTime]]

\* A request without an Authorization header, or with one that does not
\* start with "Bearer "
NoToken == [Claims EXCEPT !.type = "none"]

\* authenticate without the look at the type of the token
authenticateAnyType(token) ==
    LET v == jwtVerify(token, env.accessSecret)
    IN  IF token = NoToken THEN "missing_token"
        ELSE IF v = "expired" THEN "token_expired"
        ELSE IF v = "invalid" THEN "invalid_token"
        ELSE IF ~Has(usersById, token.sub)
                \/ usersById[token.sub].tokenVersion # token.tokenVersion
             THEN "stale_token"
        ELSE "ok"

\* authenticate: "ok", or the error of the 401 it answers
authenticate(token) ==
    LET v == jwtVerify(token, env.accessSecret)
    IN  IF token = NoToken THEN "missing_token"
        ELSE IF v = "expired" THEN "token_expired"
        ELSE IF v = "invalid" THEN "invalid_token"
        ELSE IF token.type # "access" THEN "invalid_token_type"
        ELSE IF ~Has(usersById, token.sub)
                \/ usersById[token.sub].tokenVersion # token.tokenVersion
             THEN "stale_token"
        ELSE "ok"

\* The checks of POST /auth/refresh with the comparison of user id and hash
\* ahead of the look at revokedAt and expiresAt
refreshCheckComparesFirst(token) ==
    LET v == jwtVerify(token, env.refreshSecret)
    IN  IF v = "expired" THEN "refresh_token_expired"
        ELSE IF v = "invalid" THEN "invalid_refresh_token"
        ELSE IF token.type # "refresh" THEN "invalid_token_type"
        ELSE IF ~Has(refreshSessions, token.sid) THEN "refresh_session_invalid"
        ELSE IF refreshSessions[token.sid].userId # token.sub
                \/ refreshSessions[token.sid].tokenHash # sha256(token)
             THEN "refresh_session_mismatch"
        ELSE IF refreshSessions[token.sid].revokedAt # NoTime
                \/ refreshSessions[token.sid].expiresAt <= now
             THEN "refresh_session_invalid"
        ELSE IF ~Has(usersById, token.sub)
                \/ usersById[token.sub].tokenVersion # token.tokenVersion
             THEN "stale_refresh_token"
        ELSE "ok"

\* The checks of POST /auth/refresh without the look at session.revokedAt
refreshCheckSkipsRevoked(token) ==
    LET v == jwtVerify(token, env.refreshSecret)
    IN  IF v = "expired" THEN "refresh_token_expired"
        ELSE IF v = "invalid" THEN "invalid_refresh_token"
        ELSE IF token.type # "refresh" THEN "invalid_token_type"
        ELSE IF ~Has(refreshSessions, token.sid)
                \/ refreshSessions[token.sid].expiresAt <= now
             THEN "refresh_session_invalid"
        ELSE IF refreshSessions[token.sid].userId # token.sub
                \/ refreshSessions[token.sid].tokenHash # sha256(token)
             THEN "refresh_session_mismatch"
        ELSE IF ~Has(usersById, token.sub)
                \/ usersById[token.sub].tokenVersion # token.tokenVersion
             THEN "stale_refresh_token"
        ELSE "ok"

\* The checks of POST /auth/refresh in the order of the handler: "ok", or the
\* error of the 401 it answers.
refreshCheck(token) ==
    LET v == jwtVerify(token, env.refreshSecret)
    IN  IF v = "expired" THEN "refresh_token_expired"
        ELSE IF v = "invalid" THEN "invalid_refresh_token"
        ELSE IF token.type # "refresh" THEN "invalid_token_type"
        ELSE IF ~Has(refreshSessions, token.sid)
                \/ refreshSessions[token.sid].revokedAt # NoTime
                \/ refreshSessions[token.sid].expiresAt <= now
             THEN "refresh_session_invalid"
        ELSE IF refreshSessions[token.sid].userId # token.sub
                \/ refreshSessions[token.sid].tokenHash # sha256(token)
             THEN "refresh_session_mismatch"
        ELSE IF ~Has(usersById, token.sub)
                \/ usersById[token.sub].tokenVersion # token.tokenVersion
             THEN "stale_refresh_token"
        ELSE "ok"

\* A revocation that removes the session from the map
revokeSessionDeletes(sessions, sid) == Del(sessions, sid)

\* A revocation that stamps every session of the user
revokeSessionsOfUser(sessions, sid) ==
    [s \in DOMAIN sessions |->
        IF sessions[s].userId = sessions[sid].userId
        THEN [sessions[s] EXCEPT !.revokedAt = now] ELSE sessions[s]]

\* A revocation that stamps nothing
revokeSessionKeeps(sessions, sid) == sessions

\* session.revokedAt = deps.now()
revokeSession(sessions, sid) ==
    [sessions EXCEPT ![sid].revokedAt = now]

\* A consumption that leaves the state in the map
consumeStateKeeps(states, state) == states

\* oauthStates.delete(state)
consumeState(states, state) == Del(states, state)

\* The age check with >= in the place of >
stateExpiredAtTtl(issuedAt) == now - issuedAt >= OAuthStateTtl

\* now - issuedAt > 10 * 60 * 1000
stateExpired(issuedAt) == now - issuedAt > OAuthStateTtl

\* The state checks of GET /auth/google/callback: "ok", or the error of the
\* 400 it answers.
callbackCheck(state) ==
    IF ~Has(oauthStates, state) THEN "invalid_state"
    ELSE IF stateExpired(oauthStates[state]) THEN "expired_state"
    ELSE "ok"

\* A logout that stamps the session again when it is revoked already
logoutSessionsAgain(token) ==
    IF Has(refreshSessions, token.sid)
    THEN revokeSession(refreshSessions, token.sid)
    ELSE refreshSessions

\* A logout that verifies the token and revokes nothing
logoutSessionsKeeps(token) == refreshSessions

\* POST /auth/logout, once the token has verified: the sessions after it
logoutSessions(token) ==
    IF Has(refreshSessions, token.sid) /\ refreshSessions[token.sid].revokedAt = NoTime
    THEN revokeSession(refreshSessions, token.sid)
    ELSE refreshSessions

-----------------------------------------------------------------------------
(* Auth endpoints *)

\* GET /auth/google/start
Start ==
    /\ nextId < MaxIds
    /\ Cardinality(DOMAIN issuedStates) < MaxStarts
    /\ LET state == randomId(nextId)
       IN  /\ oauthStates' = Put(oauthStates, state, now)
           /\ issuedStates' = Put(issuedStates, state, now)
           /\ resp' = [op |-> "start", status |-> 200, error |-> ""]
    /\ nextId' = nextId + 1
    /\ UNCHANGED <<now, env, usersByEmail, usersById, refreshSessions, pendingExchange,
                   refreshRequests, issuedTokens, subscriptionsByUserId, lmsVars,
                   histVars>>

\* GET /auth/google/callback, up to `await exchangeCodeForProfile`: the state
\* is looked up, deleted and checked for its age. A callback that passes is
\* suspended; status 0 says that it has not answered yet.
CallbackBegin(state) ==
    LET check == callbackCheck(state)
        found == check # "invalid_state"
        accepted == check = "ok"
    IN  /\ oauthStates' = IF found THEN consumeState(oauthStates, state) ELSE oauthStates
        /\ pendingExchange' = IF accepted THEN pendingExchange \cup {state}
                              ELSE pendingExchange
        /\ resp' = [op |-> "callback", status |-> IF accepted THEN 0 ELSE 400,
                    error |-> IF accepted THEN "" ELSE check, state |-> state]
        /\ consumedStates' = IF found THEN consumedStates \cup {state} ELSE consumedStates
        /\ acceptedStates' = IF accepted
                             THEN Put(acceptedStates, state,
                                      IF Has(acceptedStates, state)
                                      THEN acceptedStates[state] + 1 ELSE 1)
                             ELSE acceptedStates
        /\ UNCHANGED <<now, nextId, env, usersByEmail, usersById, refreshSessions,
                       refreshRequests, issuedTokens, issuedStates,
                       subscriptionsByUserId, lmsVars, rotatedTokens, loggedOutTokens,
                       successors, racedTokens, logins>>

\* A catch block that puts the state back for another attempt
CallbackExchangeFailsRestores(state) ==
    /\ state \in pendingExchange
    /\ pendingExchange' = pendingExchange \ {state}
    /\ oauthStates' = Put(oauthStates, state, issuedStates[state])
    /\ resp' = [op |-> "exchange", status |-> 401, error |-> "google_auth_failed"]
    /\ UNCHANGED <<now, nextId, env, usersByEmail, usersById,
                   refreshSessions, refreshRequests, issuedTokens, issuedStates,
                   subscriptionsByUserId, lmsVars, histVars>>

\* The identity exchange of a suspended callback fails: the catch block.
CallbackExchangeFails(state) ==
    /\ state \in pendingExchange
    /\ pendingExchange' = pendingExchange \ {state}
    /\ resp' = [op |-> "exchange", status |-> 401, error |-> "google_auth_failed"]
    /\ UNCHANGED <<now, nextId, env, oauthStates, usersByEmail, usersById,
                   refreshSessions, refreshRequests, issuedTokens, issuedStates,
                   subscriptionsByUserId, lmsVars, histVars>>

\* The identity exchange of a suspended callback returns a profile: the user
\* is found or created and toAuthResponse signs the tokens. (name, createdAt
\* and updatedAt of a User are written and never read; they are left out.)
exchangeReturns(state, email, ids) ==
    LET normalizedEmail == toLowerCase(email)
        known == Has(usersByEmail, normalizedEmail)
        user == IF known THEN usersByEmail[normalizedEmail]
                ELSE [id |-> randomId(nextId), email |-> normalizedEmail,
                      role |-> roleForEmail(normalizedEmail), tokenVersion |-> 1]
        used == IF known THEN 0 ELSE 1
        refresh == issueRefreshToken(user, randomId(nextId + used))
        accessToken == signAccessToken(user)
    IN  /\ state \in pendingExchange
        /\ nextId + used < ids
        /\ pendingExchange' = pendingExchange \ {state}
        /\ usersByEmail' = Put(usersByEmail, normalizedEmail, user)
        /\ usersById' = Put(usersById, user.id, user)
        /\ subscriptionsByUserId' = getOrCreateSubscription(subscriptionsByUserId, user.id)
        /\ refreshSessions' = Put(refreshSessions, refresh.session.sessionId,
                                  refresh.session)
        /\ nextId' = nextId + used + 1
        /\ issuedTokens' = issuedTokens \cup {accessToken, refresh.token}
        /\ resp' = [op |-> "exchange", status |-> 200, error |-> ""]
        /\ logins' = logins \cup {[accessToken |-> accessToken,
                                    refreshToken |-> refresh.token, at |-> now]}
        /\ UNCHANGED <<now, env, oauthStates, refreshRequests, issuedStates, lmsVars,
                       rotatedTokens, loggedOutTokens, consumedStates, acceptedStates,
                       successors, racedTokens>>

CallbackExchangeReturns(state, email) == exchangeReturns(state, email, MaxIds)

\* The number of refresh requests in flight (refreshRequests: token -> count)
RECURSIVE Total(_)
Total(m) ==
    IF DOMAIN m = {} THEN 0
    ELSE LET k == CHOOSE x \in DOMAIN m : TRUE IN m[k] + Total(Del(m, k))
InFlight == Total(refreshRequests)

\* POST /auth/refresh is received: express.json() has parsed the body, the
\* route handler has not run yet.
RefreshReceive(token) ==
    LET held == IF Has(refreshRequests, token) THEN refreshRequests[token] ELSE 0
    IN  /\ InFlight < MaxInFlight
        /\ refreshRequests' = Put(refreshRequests, token, held + 1)
        /\ resp' = [op |-> "receive", status |-> 0, error |-> ""]
        /\ UNCHANGED <<now, nextId, env, oauthStates, usersByEmail, usersById,
                       refreshSessions, pendingExchange, issuedTokens, issuedStates,
                       subscriptionsByUserId, lmsVars, histVars>>

\* A refresh handler that takes the replay of a rotated token for a theft and
\* revokes every session of its user
refreshWithinRevokesFamily(token, ids) ==
    LET check == refreshCheck(token)
        ok == check = "ok"
        user == usersById[token.sub]
        refresh == issueRefreshToken(user, randomId(nextId))
        accessToken == signAccessToken(user)
    IN  /\ ok => nextId < ids
        /\ refreshSessions' =
              IF ok THEN Put(revokeSession(refreshSessions, token.sid),
                             refresh.session.sessionId, refresh.session)
              ELSE IF check = "refresh_session_invalid"
                      /\ Has(refreshSessions, token.sid)
                   THEN revokeSessionsOfUser(refreshSessions, token.sid)
              ELSE refreshSessions
        /\ subscriptionsByUserId' =
              IF ok THEN getOrCreateSubscription(subscriptionsByUserId, user.id)
              ELSE subscriptionsByUserId
        /\ nextId' = IF ok THEN nextId + 1 ELSE nextId
        /\ issuedTokens' = IF ok THEN issuedTokens \cup {accessToken, refresh.token}
                           ELSE issuedTokens
        /\ resp' = [op |-> "refresh", status |-> IF ok THEN 200 ELSE 401,
                    error |-> IF ok THEN "" ELSE check, token |-> token,
                    accessToken |-> IF ok THEN accessToken ELSE Claims,
                    refreshToken |-> IF ok THEN refresh.token ELSE Claims]
        /\ rotatedTokens' = IF ok THEN Put(rotatedTokens, token, now) ELSE rotatedTokens
        /\ successors' =
              IF ok THEN Put(successors, token,
                             (IF Has(successors, token) THEN successors[token] ELSE {})
                                \cup {refresh.session.sessionId})
              ELSE successors
        /\ racedTokens' =
              IF ok /\ Has(refreshRequests, token) /\ refreshRequests[token] > 1
              THEN racedTokens \cup {token} ELSE racedTokens
        /\ UNCHANGED <<now, env, oauthStates, usersByEmail, usersById, pendingExchange,
                       issuedStates, lmsVars, loggedOutTokens, consumedStates,
                       acceptedStates, logins>>

\* POST /auth/refresh: the route handler, which runs without suspending, on
\* `token`. It says nothing of refreshRequests: Refresh and RefreshHandle do.
refreshWithin(token, ids) ==
    LET check == refreshCheck(token)
        ok == check = "ok"
        user == usersById[token.sub]
        refresh == issueRefreshToken(user, randomId(nextId))
        accessToken == signAccessToken(user)
    IN  /\ ok => nextId < ids
        /\ refreshSessions' =
              IF ok THEN Put(revokeSession(refreshSessions, token.sid),
                             refresh.session.sessionId, refresh.session)
              ELSE refreshSessions
        /\ subscriptionsByUserId' =
              IF ok THEN getOrCreateSubscription(subscriptionsByUserId, user.id)
              ELSE subscriptionsByUserId
        /\ nextId' = IF ok THEN nextId + 1 ELSE nextId
        /\ issuedTokens' = IF ok THEN issuedTokens \cup {accessToken, refresh.token}
                           ELSE issuedTokens
        /\ resp' = [op |-> "refresh", status |-> IF ok THEN 200 ELSE 401,
                    error |-> IF ok THEN "" ELSE check, token |-> token,
                    accessToken |-> IF ok THEN accessToken ELSE Claims,
                    refreshToken |-> IF ok THEN refresh.token ELSE Claims]
        /\ rotatedTokens' = IF ok THEN Put(rotatedTokens, token, now) ELSE rotatedTokens
        /\ successors' =
              IF ok THEN Put(successors, token,
                             (IF Has(successors, token) THEN successors[token] ELSE {})
                                \cup {refresh.session.sessionId})
              ELSE successors
        /\ racedTokens' =
              IF ok /\ Has(refreshRequests, token) /\ refreshRequests[token] > 1
              THEN racedTokens \cup {token} ELSE racedTokens
        /\ UNCHANGED <<now, env, oauthStates, usersByEmail, usersById, pendingExchange,
                       issuedStates, lmsVars, loggedOutTokens, consumedStates,
                       acceptedStates, logins>>

refreshHandler(token) == refreshWithin(token, MaxIds)

\* POST /auth/refresh, received and handled with no other request in between
Refresh(token) ==
    /\ refreshHandler(token)
    /\ UNCHANGED refreshRequests

\* POST /auth/refresh: the handler runs for a request received earlier
RefreshHandle(token) ==
    /\ Has(refreshRequests, token)
    /\ refreshHandler(token)
    /\ refreshRequests' = IF refreshRequests[token] = 1 THEN Del(refreshRequests, token)
                          ELSE [refreshRequests EXCEPT ![token] = @ - 1]

\* A logout that waits until no callback is suspended in the identity exchange
LogoutWaits(token) ==
    LET v == jwtVerify(token, env.refreshSecret)
        error == IF v # "ok" THEN "invalid_refresh_token"
                 ELSE IF token.type # "refresh" THEN "invalid_token_type"
                 ELSE ""
        ok == error = ""
    IN  /\ pendingExchange = {}
        /\ refreshSessions' = IF ok THEN logoutSessions(token) ELSE refreshSessions
        /\ resp' = [op |-> "logout", status |-> IF ok THEN 200 ELSE 401,
                    error |-> error, token |-> token]
        /\ loggedOutTokens' = IF ok THEN loggedOutTokens \cup {token}
                              ELSE loggedOutTokens
        /\ UNCHANGED <<now, nextId, env, oauthStates, usersByEmail, usersById,
                       pendingExchange, refreshRequests, issuedTokens, issuedStates,
                       subscriptionsByUserId, lmsVars, rotatedTokens, consumedStates,
                       acceptedStates, successors, racedTokens, logins>>

\* POST /auth/logout
Logout(token) ==
    LET v == jwtVerify(token, env.refreshSecret)
        error == IF v # "ok" THEN "invalid_refresh_token"
                 ELSE IF token.type # "refresh" THEN "invalid_token_type"
                 ELSE ""
        ok == error = ""
    IN  /\ refreshSessions' = IF ok THEN logoutSessions(token) ELSE refreshSessions
        /\ resp' = [op |-> "logout", status |-> IF ok THEN 200 ELSE 401,
                    error |-> error, token |-> token]
        /\ loggedOutTokens' = IF ok THEN loggedOutTokens \cup {token}
                              ELSE loggedOutTokens
        /\ UNCHANGED <<now, nextId, env, oauthStates, usersByEmail, usersById,
                       pendingExchange, refreshRequests, issuedTokens, issuedStates,
                       subscriptionsByUserId, lmsVars, rotatedTokens, consumedStates,
                       acceptedStates, successors, racedTokens, logins>>

\* authorize(roles), after authenticate has passed
authorize(roles, token) == token.role \in roles

ProtectedEndpoints ==
    [me |-> {"Admin", "Instructor", "Student"},
     rbacAdmin |-> {"Admin"}]

\* GET /auth/me and GET /rbac/admin: authenticate, then authorize, then the
\* answer (/rbac/instructor and /rbac/student differ in the role list only).
Protected(endpoint, token) ==
    LET auth == authenticate(token)
        allowed == auth = "ok" /\ authorize(ProtectedEndpoints[endpoint], token)
    IN  /\ subscriptionsByUserId' =
              IF allowed /\ endpoint = "me"
              THEN getOrCreateSubscription(subscriptionsByUserId, token.sub)
              ELSE subscriptionsByUserId
        /\ resp' = [op |-> "protected", token |-> token,
                    status |-> IF auth # "ok" THEN 401
                               ELSE IF ~allowed THEN 403 ELSE 200,
                    error |-> IF auth # "ok" THEN auth
                              ELSE IF ~allowed THEN "forbidden" ELSE ""]
        /\ UNCHANGED <<authVars, lmsVars, histVars>>

\* Time passes.
Tick ==
    /\ now < MaxTime
    /\ now' = now + 1
    /\ resp' = [op |-> "tick", status |-> 0, error |-> ""]
    /\ UNCHANGED <<nextId, env, oauthStates, usersByEmail, usersById, refreshSessions,
                   pendingExchange, refreshRequests, issuedTokens, issuedStates,
                   subscriptionsByUserId, lmsVars, histVars>>

-----------------------------------------------------------------------------
(* The auth service on its own: the LMS store stays empty *)

LmsEmpty ==
    /\ courses = EmptyMap /\ modules = EmptyMap /\ lessons = EmptyMap
    /\ enrollments = EmptyMap /\ progress = EmptyMap /\ lessonContent = EmptyMap
    /\ moduleIdsByCourse = EmptyMap /\ lessonIdsByModule = EmptyMap
    /\ enrollmentIdsByCourse = EmptyMap /\ progressIdsByEnrollment = EmptyMap
    /\ enrollmentByCourseUser = EmptyMap

HistEmpty ==
    /\ rotatedTokens = EmptyMap /\ loggedOutTokens = {} /\ consumedStates = {}
    /\ acceptedStates = EmptyMap /\ successors = EmptyMap /\ racedTokens = {}
    /\ logins = {}

Init ==
    /\ now = 0 /\ nextId = 0
    /\ env \in Envs
    /\ oauthStates = EmptyMap /\ usersByEmail = EmptyMap /\ usersById = EmptyMap
    /\ subscriptionsByUserId = EmptyMap /\ refreshSessions = EmptyMap
    /\ pendingExchange = {} /\ refreshRequests = EmptyMap
    /\ issuedTokens = {} /\ issuedStates = EmptyMap
    /\ LmsEmpty /\ HistEmpty
    /\ resp = [op |-> "none", status |-> 0, error |-> ""]

\* The accounts that log in while the auth routes are explored
LoginEmails == {"admin@nav", "stud@nav", "STUD@nav"}

\* Tokens a client sends to an endpoint that verifies with `secret`: the
\* tokens the service signed with it, and a forged one for every other token.
IssuedFor(secret) == {t \in issuedTokens : t.sig = secret}
TokensFor(secret, forged) == IssuedFor(secret) \cup {forged}

NextAuth ==
    \/ Start
    \/ \E state \in DOMAIN issuedStates \cup {"bogus"} : CallbackBegin(state)
    \/ \E state \in pendingExchange : CallbackExchangeFails(state)
    \/ \E state \in pendingExchange, email \in LoginEmails :
          CallbackExchangeReturns(state, email)
    \/ \E token \in TokensFor(env.refreshSecret, ForgedRefreshToken) : Refresh(token)
    \/ \E token \in TokensFor(env.refreshSecret, ForgedRefreshToken) : Logout(token)
    \/ \E endpoint \in DOMAIN ProtectedEndpoints,
          token \in TokensFor(env.accessSecret, ForgedAccessToken) :
          Protected(endpoint, token)
    \/ Tick

SpecAuth == Init /\ [][NextAuth]_vars

\* Login and rotation with refresh requests held in flight between their
\* arrival and their handler, so that several carry one token at once.
NextRace ==
    \/ Start
    \/ \E state \in DOMAIN issuedStates : CallbackBegin(state)
    \/ \E state \in pendingExchange, email \in LoginEmails :
          CallbackExchangeReturns(state, email)
    \/ \E token \in IssuedFor(env.refreshSecret) : RefreshReceive(token)
    \/ \E token \in DOMAIN refreshRequests : RefreshHandle(token)
    \/ Tick

SpecRace == Init /\ [][NextRace]_vars

-----------------------------------------------------------------------------
(* The LMS domain store (LmsCoreStore) *)

\* Progress["status"]
Statuses == {"not_started", "in_progress", "completed"}

\* The elements of a string[] index
Range(seq) == {seq[i] : i \in DOMAIN seq}

\* An index that keeps the last id only
pushIndexReplaces(index, key, value) == Put(index, key, <<value>>)

\* pushIndex(index, key, value)
pushIndex(index, key, value) ==
    Put(index, key, (IF Has(index, key) THEN index[key] ELSE <<>>) \o <<value>>)

\* `${a}:${b}`
joinKey(a, b) == a \o ":" \o b

\* moduleIds.flatMap((moduleId) => lessonIdsByModule.get(moduleId) ?? [])
RECURSIVE flatMapLessonIds(_)
flatMapLessonIds(moduleIds) ==
    IF moduleIds = <<>> THEN <<>>
    ELSE (IF Has(lessonIdsByModule, Head(moduleIds))
          THEN lessonIdsByModule[Head(moduleIds)] ELSE <<>>)
         \o flatMapLessonIds(Tail(moduleIds))

\* getLessonsForCourse(courseId), as lesson ids
getLessonsForCourse(courseId) ==
    SelectSeq(flatMapLessonIds(IF Has(moduleIdsByCourse, courseId)
                               THEN moduleIdsByCourse[courseId] ELSE <<>>),
              LAMBDA lessonId : Has(lessons, lessonId))

\* The row the fan-out writes
newProgress(enrollmentId, lessonId) ==
    [id |-> joinKey(enrollmentId, lessonId), enrollmentId |-> enrollmentId,
     lessonId |-> lessonId, status |-> "not_started", completedAt |-> NoTime]

\* createLesson's loop over the enrollments of the course: the progress table
\* and the progressIdsByEnrollment index after it
RECURSIVE fanOutLesson(_, _, _)
fanOutLesson(store, enrollmentIds, lessonId) ==
    IF enrollmentIds = <<>> THEN store
    ELSE LET enrollmentId == Head(enrollmentIds)
             row == newProgress(enrollmentId, lessonId)
         IN  fanOutLesson([progress |-> Put(store.progress, row.id, row),
                           index |-> pushIndex(store.index, enrollmentId, row.id)],
                          Tail(enrollmentIds), lessonId)

\* enrollStudent's loop over the lessons of the course
RECURSIVE fanOutEnrollment(_, _, _)
fanOutEnrollment(store, enrollmentId, lessonIds) ==
    IF lessonIds = <<>> THEN store
    ELSE LET row == newProgress(enrollmentId, Head(lessonIds))
         IN  fanOutEnrollment([progress |-> Put(store.progress, row.id, row),
                               index |-> pushIndex(store.index, enrollmentId, row.id)],
                              enrollmentId, Tail(lessonIds))

\* A lesson fan-out that finds no enrollment
enrollmentsOfNoCourse(courseId) == <<>>

\* this.enrollmentIdsByCourse.get(moduleRow.courseId) ?? []
enrollmentsOfCourse(courseId) ==
    IF Has(enrollmentIdsByCourse, courseId) THEN enrollmentIdsByCourse[courseId]
    ELSE <<>>

\* The checks of createCourse .. markLessonProgress: the code of the
\* LmsModelError thrown, "" when none is.

\* A createCourse that refuses a third course of one creator
createCourseWithinLimit(input) ==
    IF Has(courses, input.id) THEN "DUPLICATE"
    ELSE IF Cardinality({c \in DOMAIN courses :
                            courses[c].createdBy = input.createdBy}) >= 2
         THEN "ACCESS_DENIED"
    ELSE ""

createCourse(input) ==
    IF Has(courses, input.id) THEN "DUPLICATE" ELSE ""

\* A createModule that does not look at the positions in the course
createModuleAnyPosition(input) ==
    IF ~Has(courses, input.courseId) THEN "INVALID_RELATION"
    ELSE IF Has(modules, input.id) THEN "DUPLICATE"
    ELSE ""

createModule(input) ==
    IF ~Has(courses, input.courseId) THEN "INVALID_RELATION"
    ELSE IF Has(modules, input.id) THEN "DUPLICATE"
    ELSE IF \E moduleId \in Range(moduleIdsByCourse[input.courseId]) :
               modules[moduleId].position = input.position
         THEN "DUPLICATE"
    ELSE ""

createLesson(input) ==
    IF ~Has(modules, input.moduleId) THEN "INVALID_RELATION"
    ELSE IF Has(lessons, input.id) THEN "DUPLICATE"
    ELSE IF \E lessonId \in Range(lessonIdsByModule[input.moduleId]) :
               lessons[lessonId].position = input.position
         THEN "DUPLICATE"
    ELSE ""

enrollStudent(input) ==
    IF ~Has(courses, input.courseId) THEN "INVALID_RELATION"
    ELSE IF Has(enrollments, input.id) THEN "DUPLICATE"
    ELSE IF Has(enrollmentByCourseUser, joinKey(input.courseId, input.userId))
         THEN "DUPLICATE"
    ELSE ""

\* An attachLessonContent that does not look the lesson up
attachLessonContentAnywhere(input) == ""

attachLessonContent(input) ==
    IF ~Has(lessons, input.lessonId) THEN "NOT_FOUND" ELSE ""

\* A markLessonProgress that takes any lesson that exists
markLessonProgressAnyLesson(input) ==
    IF ~Has(enrollments, input.enrollmentId) THEN "NOT_FOUND"
    ELSE IF enrollments[input.enrollmentId].userId # input.actorUserId
         THEN "ACCESS_DENIED"
    ELSE IF ~Has(lessons, input.lessonId) THEN "NOT_FOUND"
    ELSE ""

markLessonProgress(input) ==
    IF ~Has(enrollments, input.enrollmentId) THEN "NOT_FOUND"
    ELSE IF enrollments[input.enrollmentId].userId # input.actorUserId
         THEN "ACCESS_DENIED"
    ELSE IF ~Has(lessons, input.lessonId) THEN "NOT_FOUND"
    ELSE IF ~Has(modules, lessons[input.lessonId].moduleId)
            \/ modules[lessons[input.lessonId].moduleId].courseId
                  # enrollments[input.enrollmentId].courseId
         THEN "INVALID_RELATION"
    ELSE IF ~Has(progress, joinKey(input.enrollmentId, input.lessonId))
         THEN "INVALID_RELATION"
    ELSE ""

\* getCourseIdForModule / getCourseIdForLesson: the error thrown, "" when none
getCourseIdForModule(moduleId) ==
    IF ~Has(modules, moduleId) THEN "NOT_FOUND" ELSE ""

getCourseIdForLesson(lessonId) ==
    IF ~Has(lessons, lessonId) THEN "NOT_FOUND"
    ELSE IF ~Has(modules, lessons[lessonId].moduleId) THEN "INVALID_RELATION"
    ELSE ""

canUserAccessLessonContent(input) ==
    IF ~Has(lessons, input.lessonId) THEN FALSE
    ELSE IF ~Has(modules, lessons[input.lessonId].moduleId) THEN FALSE
    ELSE IF input.role = "Admin" THEN TRUE
    ELSE LET courseId == modules[lessons[input.lessonId].moduleId].courseId
         IN  IF input.role = "Instructor"
             THEN Has(courses, courseId) /\ courses[courseId].createdBy = input.userId
             ELSE Has(enrollmentByCourseUser, joinKey(courseId, input.userId))

\* getInstructorDashboard: the error thrown, "" when the dashboard is returned
getInstructorDashboard(input) ==
    IF ~Has(courses, input.courseId) THEN "NOT_FOUND"
    ELSE IF input.role = "Instructor" /\ courses[input.courseId].createdBy # input.userId
         THEN "ACCESS_DENIED"
    ELSE ""

-----------------------------------------------------------------------------
(* The arithmetic of completion percentages *)

\* Naturals of any size: the digits to the base 2^15, lowest digit first
Base == 32768

\* The significand of a Number (IEEE 754 binary64) has 53 bits
Mantissa == 53

\* x * c + carry
RECURSIVE bigMul(_, _, _)
bigMul(x, c, carry) ==
    IF x = <<>> THEN (IF carry = 0 THEN <<>> ELSE <<carry>>)
    ELSE LET t == Head(x) * c + carry
         IN  <<t % Base>> \o bigMul(Tail(x), c, t \div Base)

\* Quotient and remainder of x by d
RECURSIVE bigDivMod(_, _)
bigDivMod(x, d) ==
    IF x = <<>> THEN [q |-> <<>>, r |-> 0]
    ELSE LET hi == bigDivMod(Tail(x), d)
             t == hi.r * Base + Head(x)
         IN  [q |-> <<t \div d>> \o hi.q, r |-> t % d]

\* x + 1
RECURSIVE bigInc(_)
bigInc(x) ==
    IF x = <<>> THEN <<1>>
    ELSE IF Head(x) + 1 < Base THEN <<Head(x) + 1>> \o Tail(x)
    ELSE <<0>> \o bigInc(Tail(x))

\* The number of bits of v < 2^15
bitLength(v) == CHOOSE b \in 0..15 : v < 2^b /\ (b = 0 \/ 2^(b - 1) <= v)

\* Bit i of x, bit 0 being the lowest
bigBit(x, i) ==
    IF i < 0 \/ i \div 15 + 1 > Len(x) THEN 0
    ELSE (x[i \div 15 + 1] \div 2^(i % 15)) % 2

\* The number of bits of x
bigBits(x) ==
    IF \A i \in DOMAIN x : x[i] = 0 THEN 0
    ELSE LET top == CHOOSE i \in DOMAIN x :
                       x[i] # 0 /\ \A j \in DOMAIN x : j > i => x[j] = 0
         IN  15 * (top - 1) + bitLength(x[top])

\* x * 2^j and the whole part of x / 2^j
shiftLeft(x, j) == [i \in 1..(j \div 15) |-> 0] \o bigMul(x, 2^(j % 15), 0)

shiftRight(x, j) ==
    IF j \div 15 >= Len(x) THEN <<>>
    ELSE bigDivMod(SubSeq(x, j \div 15 + 1, Len(x)), 2^(j % 15)).q

\* x as a number, for x < 2^15
toNat(x) == IF \A i \in DOMAIN x : x[i] = 0 THEN 0 ELSE x[1]

\* Some bits below a significand were dropped: round to nearest, ties to
\* even. up: the dropped part is above one half of the last place kept; tie:
\* it is one half. A Number is m * 2^exp, m of 53 bits (no digits for 0).
roundEven(kept, exp, up, tie) ==
    IF up \/ (tie /\ bigBit(kept, 0) = 1)
    THEN LET next == bigInc(kept)
         IN  IF bigBits(next) > Mantissa
             THEN [m |-> shiftRight(next, 1), exp |-> exp + 1]
             ELSE [m |-> next, exp |-> exp]
    ELSE [m |-> kept, exp |-> exp]

\* x * 2^exp rounded after dropping the lowest j bits of x
dropBits(x, exp, j) ==
    LET half == bigBit(x, j - 1) = 1
        low == \E i \in 0..(j - 2) : bigBit(x, i) = 1
    IN  roundEven(shiftRight(x, j), exp + j, half /\ low, half /\ ~low)

\* a / d of JavaScript, for naturals a and d below 2^15, d > 0
fdiv(a, d) ==
    IF a = 0 THEN [m |-> <<>>, exp |-> 0]
    ELSE LET e == Mantissa + bitLength(d) - bitLength(a)
             qr == bigDivMod(shiftLeft(<<a>>, e), d)
         IN  IF bigBits(qr.q) > Mantissa
             THEN LET half == bigBit(qr.q, 0) = 1
                  IN  roundEven(shiftRight(qr.q, 1), 1 - e,
                                half /\ qr.r > 0, half /\ qr.r = 0)
             ELSE roundEven(qr.q, 0 - e, 2 * qr.r > d, 2 * qr.r = d)

\* f * c of JavaScript, for a natural c below 2^15
fmul(f, c) ==
    LET product == bigMul(f.m, c, 0)
        j == bigBits(product) - Mantissa
    IN  IF j <= 0 THEN [m |-> product, exp |-> f.exp]
        ELSE dropBits(product, f.exp, j)

\* Math.round(f): the nearest integer, a half going up; results below 2^15
mathRound(f) ==
    IF f.exp >= 0 THEN toNat(shiftLeft(f.m, f.exp))
    ELSE toNat(shiftRight(f.m, 0 - f.exp)) + bigBit(f.m, 0 - f.exp - 1)

\* x without the zero digits at its high end
RECURSIVE trim(_)
trim(x) ==
    IF x = <<>> THEN <<>>
    ELSE IF x[Len(x)] = 0 THEN trim(SubSeq(x, 1, Len(x) - 1))
    ELSE x

\* The digits of a natural below 2^31
RECURSIVE toBig(_)
toBig(n) == IF n = 0 THEN <<>> ELSE <<n % Base>> \o toBig(n \div Base)

\* x + y + carry
RECURSIVE bigAdd(_, _, _)
bigAdd(x, y, carry) ==
    IF x = <<>> /\ y = <<>> THEN (IF carry = 0 THEN <<>> ELSE <<carry>>)
    ELSE LET t == (IF x = <<>> THEN 0 ELSE Head(x))
                     + (IF y = <<>> THEN 0 ELSE Head(y)) + carry
         IN  <<t % Base>> \o bigAdd(IF x = <<>> THEN <<>> ELSE Tail(x),
                                    IF y = <<>> THEN <<>> ELSE Tail(y),
                                    t \div Base)

\* x < y, for x and y without zero digits at the high end
bigLess(x, y) ==
    \/ Len(x) < Len(y)
    \/ /\ Len(x) = Len(y)
       /\ \E i \in DOMAIN x : /\ x[i] < y[i]
                               /\ \A j \in DOMAIN x : j > i => x[j] = y[j]

\* x - y - borrow, for x >= y + borrow
RECURSIVE bigSub(_, _, _)
bigSub(x, y, borrow) ==
    IF x = <<>> THEN <<>>
    ELSE LET t == Head(x) - (IF y = <<>> THEN 0 ELSE Head(y)) - borrow
         IN  <<(t + Base) % Base>>
                \o bigSub(Tail(x), IF y = <<>> THEN <<>> ELSE Tail(y),
                          IF t < 0 THEN 1 ELSE 0)

\* The Number nearest to a natural: 53 bits are kept, ties go to even
fround(x) ==
    LET j == bigBits(x) - Mantissa
    IN  IF j <= 0 THEN trim(x)
        ELSE LET r == dropBits(x, 0, j) IN trim(shiftLeft(r.m, r.exp))

\* a + b and Math.max(a - b, 0) of JavaScript, for Numbers that are naturals
addNumber(a, b) == fround(bigAdd(a, b, 0))
excessNumber(a, b) == IF bigLess(b, a) THEN fround(bigSub(a, b, 0)) ELSE <<>>

\* total += size, over the sizes in their order
RECURSIVE sumOfNumbers(_)
sumOfNumbers(numbers) ==
    IF numbers = <<>> THEN <<>>
    ELSE addNumber(sumOfNumbers(SubSeq(numbers, 1, Len(numbers) - 1)),
                   numbers[Len(numbers)])

\* The progress ids of the index that name a completed row
completedOf(progressIds) ==
    Cardinality({i \in DOMAIN progressIds :
                    /\ Has(progress, progressIds[i])
                    /\ progress[progressIds[i]].status = "completed"})

\* Math.round((completed / total) * 100)
percentOf(completed, total) == mathRound(fmul(fdiv(completed, total), 100))

\* getCourseCompletionPercent(enrollmentId), for an enrollment that exists
getCourseCompletionPercent(enrollmentId) ==
    LET progressIds == IF Has(progressIdsByEnrollment, enrollmentId)
                       THEN progressIdsByEnrollment[enrollmentId] ELSE <<>>
    IN  IF Len(progressIds) = 0 THEN 0
        ELSE percentOf(completedOf(progressIds), Len(progressIds))

RECURSIVE sumOf(_)
sumOf(numbers) ==
    IF numbers = <<>> THEN 0 ELSE Head(numbers) + sumOf(Tail(numbers))

Providers == {"gdrive", "s3", "r2"}

\* The dashboard getInstructorDashboard returns for a course that exists
\* (id and title are copied from the course)
instructorDashboard(courseId) ==
    LET moduleIds == IF Has(moduleIdsByCourse, courseId)
                     THEN moduleIdsByCourse[courseId] ELSE <<>>
        lessonIds == flatMapLessonIds(moduleIds)
        enrollmentIds == IF Has(enrollmentIdsByCourse, courseId)
                         THEN enrollmentIdsByCourse[courseId] ELSE <<>>
        studentProgress ==
            [i \in DOMAIN enrollmentIds |->
                LET enrollmentId == enrollmentIds[i]
                    progressIds == IF Has(progressIdsByEnrollment, enrollmentId)
                                   THEN progressIdsByEnrollment[enrollmentId]
                                   ELSE <<>>
                    completedLessons == completedOf(progressIds)
                    totalLessons == Len(progressIds)
                IN  [enrollmentId |-> enrollmentId,
                     userId |-> enrollments[enrollmentId].userId,
                     completedLessons |-> completedLessons,
                     totalLessons |-> totalLessons,
                     completionPercent |->
                        IF totalLessons = 0 THEN 0
                        ELSE percentOf(completedLessons, totalLessons)]]
        stored == SelectSeq(lessonIds, LAMBDA lessonId : Has(lessonContent, lessonId))
        sizes(provider) ==
            [i \in DOMAIN SelectSeq(stored, LAMBDA lessonId :
                                       lessonContent[lessonId].provider = provider) |->
                lessonContent[SelectSeq(stored, LAMBDA lessonId :
                                 lessonContent[lessonId].provider = provider)[i]].size]
    IN  [course |->
            [modules |-> Len(moduleIds), lessons |-> Len(lessonIds),
             enrollments |-> Len(enrollmentIds),
             avgCompletionPercent |->
                IF Len(studentProgress) = 0 THEN 0
                ELSE mathRound(fdiv(sumOf([i \in DOMAIN studentProgress |->
                                              studentProgress[i].completionPercent]),
                                    Len(studentProgress)))],
         studentProgress |-> studentProgress,
         storageUsage |->
            [files |-> Len(stored),
             totalBytes |-> sumOfNumbers([i \in DOMAIN stored |->
                                             lessonContent[stored[i]].size]),
             byProvider |-> [provider \in Providers |->
                                [files |-> Len(sizes(provider)),
                                 bytes |-> sumOfNumbers(sizes(provider))]]]]

-----------------------------------------------------------------------------
(* Subscription plans and soft limits *)

Plans == {"free", "pro", "enterprise"}

\* Number.MAX_SAFE_INTEGER, 2^53 - 1, as digits
MAX_SAFE_INTEGER ==
    [i \in 1..4 |-> IF i < 4 THEN Base - 1 ELSE 2^(Mantissa - 45) - 1]

\* PLAN_LIMITS
PLAN_LIMITS ==
    [free |-> [maxCreatedCourses |-> <<2>>, maxActiveEnrollments |-> <<5>>,
               maxOwnedStorageBytes |-> bigMul(bigMul(<<50>>, 1024, 0), 1024, 0)],
     pro |-> [maxCreatedCourses |-> <<20>>, maxActiveEnrollments |-> <<100>>,
              maxOwnedStorageBytes |->
                 bigMul(bigMul(bigMul(<<5>>, 1024, 0), 1024, 0), 1024, 0)],
     enterprise |-> [maxCreatedCourses |-> MAX_SAFE_INTEGER,
                     maxActiveEnrollments |-> MAX_SAFE_INTEGER,
                     maxOwnedStorageBytes |-> MAX_SAFE_INTEGER]]

\* The maps of the LmsCoreStore that getUserUsageSnapshot reads
lmsStore ==
    [courses |-> courses, enrollments |-> enrollments,
     moduleIdsByCourse |-> moduleIdsByCourse,
     lessonIdsByModule |-> lessonIdsByModule, lessonContent |-> lessonContent]

\* The lessons of some modules that have content, in the order of the
\* indexes
RECURSIVE storedLessonsOf(_, _)
storedLessonsOf(store, moduleIds) ==
    IF moduleIds = <<>> THEN <<>>
    ELSE SelectSeq(IF Has(store.lessonIdsByModule, Head(moduleIds))
                   THEN store.lessonIdsByModule[Head(moduleIds)] ELSE <<>>,
                   LAMBDA lessonId : Has(store.lessonContent, lessonId))
            \o storedLessonsOf(store, Tail(moduleIds))

\* The lessons with content of some courses, course by course (for sums
\* below 2^53 the order of the courses makes no difference)
RECURSIVE storedLessonsOfCourses(_, _)
storedLessonsOfCourses(store, courseIds) ==
    IF courseIds = {} THEN <<>>
    ELSE LET courseId == CHOOSE c \in courseIds : TRUE
         IN  storedLessonsOf(store, IF Has(store.moduleIdsByCourse, courseId)
                                    THEN store.moduleIdsByCourse[courseId]
                                    ELSE <<>>)
                \o storedLessonsOfCourses(store, courseIds \ {courseId})

\* LmsCoreStore.getUserUsageSnapshot, read in a store
getUserUsageSnapshot(store, userId) ==
    LET ownedCourseIds == {c \in DOMAIN store.courses :
                              store.courses[c].createdBy = userId}
    IN  [createdCourses |-> Cardinality(ownedCourseIds),
         activeEnrollments |->
            Cardinality({e \in DOMAIN store.enrollments :
                            store.enrollments[e].userId = userId}),
         ownedStorageBytes |->
            LET stored == storedLessonsOfCourses(store, ownedCourseIds)
            IN  sumOfNumbers([i \in DOMAIN stored |->
                                 store.lessonContent[stored[i]].size])]

\* An excess that is taken over the limits of the free plan, whatever the plan
exceededByFree(usage, limit) == excessNumber(usage, <<2>>)

\* Math.max(usage - limit, 0)
exceededBy(usage, limit) == excessNumber(usage, limit)

\* getSubscriptionStatus(userId), read in a store and its subscriptions (the
\* limits of the plan are part of the answer and are left out)
getSubscriptionStatus(store, subs, userId) ==
    LET subscription == getOrCreateSubscription(subs, userId)[userId]
        limits == PLAN_LIMITS[subscription.plan]
        usage == getUserUsageSnapshot(store, userId)
    IN  [plan |-> subscription.plan,
         usage |-> usage,
         softLimit |->
            [createdCoursesExceededBy |->
                exceededBy(toBig(usage.createdCourses), limits.maxCreatedCourses),
             activeEnrollmentsExceededBy |->
                exceededBy(toBig(usage.activeEnrollments),
                           limits.maxActiveEnrollments),
             ownedStorageBytesExceededBy |->
                exceededBy(usage.ownedStorageBytes, limits.maxOwnedStorageBytes)]]

\* withSoftLimitMeta(body, userId): the subscription part added to the body
withSoftLimitMeta(store, subs, userId) ==
    LET status == getSubscriptionStatus(store, subs, userId)
    IN  [plan |-> status.plan,
         softLimitExceeded |->
            \/ status.softLimit.createdCoursesExceededBy # <<>>
            \/ status.softLimit.activeEnrollmentsExceededBy # <<>>
            \/ status.softLimit.ownedStorageBytesExceededBy # <<>>,
         softLimit |-> status.softLimit]

-----------------------------------------------------------------------------
(* The LMS routes *)

\* An ownership check that takes any course for the instructor's own
canInstructorManageAny(userId, courseId) == Has(courses, courseId)

\* canInstructorManageCourse(userId, courseId), for a course that exists
canInstructorManageCourse(userId, courseId) ==
    courses[courseId].createdBy = userId

lmsRoleGuard(roles, token) == token.role \in roles

\* handleLmsError: the status answered for an LmsModelError
handleLmsError(code) ==
    CASE code = "ACCESS_DENIED" -> 403
      [] code = "NOT_FOUND" -> 404
      [] code = "DUPLICATE" -> 409
      [] OTHER -> 400

Answer(status, error) == [status |-> status, error |-> error]
Thrown(code) == Answer(handleLmsError(code), code)

\* authenticate, then lmsRoleGuard(roles): the answer of the one that stops
\* the request, status 0 when the route handler runs
lmsGate(roles, token) ==
    LET auth == authenticate(token)
    IN  IF auth # "ok" THEN Answer(401, auth)
        ELSE IF ~lmsRoleGuard(roles, token) THEN Answer(403, "forbidden")
        ELSE Answer(0, "")

AllRoles == {"Admin", "Instructor", "Student"}

\* The answer of a route and the principal it was given for
LmsResp(op, answer, token) ==
    [op |-> op, status |-> answer.status, error |-> answer.error, sub |-> token.sub]

\* POST /lms/courses (title and createdAt are stored and read by no check)
PostCourses(token, id) ==
    LET gate == lmsGate({"Admin", "Instructor"}, token)
        input == [id |-> id, createdBy |-> token.sub]
        thrown == createCourse(input)
        answer == IF gate.status # 0 THEN gate
                  ELSE IF thrown # "" THEN Thrown(thrown)
                  ELSE Answer(201, "")
    IN  /\ IF answer.status = 201
           THEN /\ courses' = Put(courses, id, input)
                /\ moduleIdsByCourse' = Put(moduleIdsByCourse, id, <<>>)
                /\ enrollmentIdsByCourse' = Put(enrollmentIdsByCourse, id, <<>>)
                /\ subscriptionsByUserId' =
                      getOrCreateSubscription(subscriptionsByUserId, token.sub)
                /\ UNCHANGED <<modules, lessons, enrollments, progress, lessonContent,
                               lessonIdsByModule, progressIdsByEnrollment,
                               enrollmentByCourseUser>>
           ELSE UNCHANGED <<lmsVars, subscriptionsByUserId>>
        /\ UNCHANGED <<authVars, histVars>>
        /\ resp' = IF answer.status = 201
                   THEN [op |-> "courses", status |-> 201, error |-> "",
                         sub |-> token.sub, id |-> id,
                         subscription |->
                            withSoftLimitMeta(
                               [lmsStore EXCEPT
                                   !.courses = Put(courses, id, input),
                                   !.moduleIdsByCourse =
                                       Put(moduleIdsByCourse, id, <<>>)],
                               subscriptionsByUserId, token.sub)]
                   ELSE LmsResp("courses", answer, token)

\* POST /lms/modules
PostModules(token, input) ==
    LET gate == lmsGate({"Admin", "Instructor"}, token)
        thrown == createModule(input)
        answer ==
            IF gate.status # 0 THEN gate
            ELSE IF token.role = "Instructor" /\ ~Has(courses, input.courseId)
                 THEN Thrown("NOT_FOUND")
            ELSE IF token.role = "Instructor"
                    /\ ~canInstructorManageCourse(token.sub, input.courseId)
                 THEN Answer(403, "forbidden")
            ELSE IF thrown # "" THEN Thrown(thrown)
            ELSE Answer(201, "")
    IN  /\ resp' = [op |-> "modules", status |-> answer.status,
                    error |-> answer.error, sub |-> token.sub, id |-> input.id]
        /\ IF answer.status = 201
           THEN /\ modules' = Put(modules, input.id, input)
                /\ moduleIdsByCourse' = pushIndex(moduleIdsByCourse, input.courseId,
                                                  input.id)
                /\ lessonIdsByModule' = Put(lessonIdsByModule, input.id, <<>>)
                /\ UNCHANGED <<courses, lessons, enrollments, progress, lessonContent,
                               enrollmentIdsByCourse, progressIdsByEnrollment,
                               enrollmentByCourseUser>>
           ELSE UNCHANGED lmsVars
        /\ UNCHANGED <<authVars, subscriptionsByUserId, histVars>>

\* POST /lms/lessons
PostLessons(token, input) ==
    LET gate == lmsGate({"Admin", "Instructor"}, token)
        found == getCourseIdForModule(input.moduleId)
        thrown == createLesson(input)
        answer ==
            IF gate.status # 0 THEN gate
            ELSE IF token.role = "Instructor" /\ found # "" THEN Thrown(found)
            ELSE IF token.role = "Instructor"
                    /\ ~canInstructorManageCourse(token.sub,
                                                  modules[input.moduleId].courseId)
                 THEN Answer(403, "forbidden")
            ELSE IF thrown # "" THEN Thrown(thrown)
            ELSE Answer(201, "")
        courseId == modules[input.moduleId].courseId
        fanned == fanOutLesson([progress |-> progress, index |-> progressIdsByEnrollment],
                               enrollmentsOfCourse(courseId), input.id)
    IN  /\ resp' = [op |-> "lessons", status |-> answer.status,
                    error |-> answer.error, sub |-> token.sub, id |-> input.id]
        /\ IF answer.status = 201
           THEN /\ lessons' = Put(lessons, input.id, input)
                /\ lessonIdsByModule' = pushIndex(lessonIdsByModule, input.moduleId,
                                                  input.id)
                /\ progress' = fanned.progress
                /\ progressIdsByEnrollment' = fanned.index
                /\ UNCHANGED <<courses, modules, enrollments, lessonContent,
                               moduleIdsByCourse, enrollmentIdsByCourse,
                               enrollmentByCourseUser>>
           ELSE UNCHANGED lmsVars
        /\ UNCHANGED <<authVars, subscriptionsByUserId, histVars>>

\* A self-enrollment check that compares nothing
enrollsForOtherNever(token, input) == FALSE

\* req.auth.role === "Student" && req.auth.sub !== parsed.data.userId
enrollsForOther(token, input) ==
    token.role = "Student" /\ token.sub # input.userId

\* POST /lms/enrollments (role and enrolledAt are stored and read by no check)
PostEnrollments(token, input) ==
    LET gate == lmsGate(AllRoles, token)
        thrown == enrollStudent(input)
        answer ==
            IF gate.status # 0 THEN gate
            ELSE IF enrollsForOther(token, input) THEN Answer(403, "forbidden")
            ELSE IF thrown # "" THEN Thrown(thrown)
            ELSE Answer(201, "")
        fanned == fanOutEnrollment(
                     [progress |-> progress,
                      index |-> Put(progressIdsByEnrollment, input.id, <<>>)],
                     input.id, getLessonsForCourse(input.courseId))
    IN  /\ IF answer.status = 201
           THEN /\ enrollments' = Put(enrollments, input.id, input)
                /\ enrollmentByCourseUser' =
                      Put(enrollmentByCourseUser,
                          joinKey(input.courseId, input.userId), input.id)
                /\ enrollmentIdsByCourse' = pushIndex(enrollmentIdsByCourse,
                                                      input.courseId, input.id)
                /\ progress' = fanned.progress
                /\ progressIdsByEnrollment' = fanned.index
                /\ subscriptionsByUserId' =
                      getOrCreateSubscription(subscriptionsByUserId, input.userId)
                /\ UNCHANGED <<courses, modules, lessons, lessonContent,
                               moduleIdsByCourse, lessonIdsByModule>>
           ELSE UNCHANGED <<lmsVars, subscriptionsByUserId>>
        /\ UNCHANGED <<authVars, histVars>>
        /\ resp' = IF answer.status = 201
                   THEN [op |-> "enrollments", status |-> 201, error |-> "",
                         sub |-> token.sub, id |-> input.id,
                         subscription |->
                            withSoftLimitMeta(
                               [lmsStore EXCEPT
                                   !.enrollments = Put(enrollments, input.id, input)],
                               subscriptionsByUserId, input.userId)]
                   ELSE LmsResp("enrollments", answer, token)

\* A completion time that is set for every status
completedAtAlways(status) == now

\* input.status === "completed" ? this.now() : undefined
completedAtFor(status) == IF status = "completed" THEN now ELSE NoTime

\* A progress update that writes the row before it looks at whose it is
PatchProgressWritesFirst(token, input) ==
    LET gate == lmsGate({"Student"}, token)
        thrown == markLessonProgress([enrollmentId |-> input.enrollmentId,
                                      lessonId |-> input.lessonId,
                                      actorUserId |-> token.sub,
                                      status |-> input.status])
        answer == IF gate.status # 0 THEN gate
                  ELSE IF thrown # "" THEN Thrown(thrown)
                  ELSE Answer(200, "")
        progressId == joinKey(input.enrollmentId, input.lessonId)
    IN  /\ resp' = LmsResp("progress", answer, token)
        /\ progress' =
              IF gate.status = 0 /\ Has(progress, progressId)
              THEN [progress EXCEPT
                      ![progressId].status = input.status,
                      ![progressId].completedAt = completedAtFor(input.status)]
              ELSE progress
        /\ UNCHANGED <<courses, modules, lessons, enrollments, lessonContent,
                       moduleIdsByCourse, lessonIdsByModule, enrollmentIdsByCourse,
                       progressIdsByEnrollment, enrollmentByCourseUser>>
        /\ UNCHANGED <<authVars, subscriptionsByUserId, histVars>>

\* PATCH /lms/progress
PatchProgress(token, input) ==
    LET gate == lmsGate({"Student"}, token)
        thrown == markLessonProgress([enrollmentId |-> input.enrollmentId,
                                      lessonId |-> input.lessonId,
                                      actorUserId |-> token.sub,
                                      status |-> input.status])
        answer == IF gate.status # 0 THEN gate
                  ELSE IF thrown # "" THEN Thrown(thrown)
                  ELSE Answer(200, "")
        progressId == joinKey(input.enrollmentId, input.lessonId)
    IN  /\ resp' = LmsResp("progress", answer, token)
        /\ progress' =
              IF answer.status = 200
              THEN [progress EXCEPT
                      ![progressId].status = input.status,
                      ![progressId].completedAt = completedAtFor(input.status)]
              ELSE progress
        /\ UNCHANGED <<courses, modules, lessons, enrollments, lessonContent,
                       moduleIdsByCourse, lessonIdsByModule, enrollmentIdsByCourse,
                       progressIdsByEnrollment, enrollmentByCourseUser>>
        /\ UNCHANGED <<authVars, subscriptionsByUserId, histVars>>

\* PUT /lms/lessons/:lessonId/content (fileId, contentType and updatedAt are
\* stored and read by no check)
PutContent(token, lessonId, content) ==
    LET gate == lmsGate({"Admin", "Instructor"}, token)
        found == getCourseIdForLesson(lessonId)
        input == [lessonId |-> lessonId, provider |-> content.provider,
                  key |-> content.key, size |-> content.size]
        thrown == attachLessonContent(input)
        answer ==
            IF gate.status # 0 THEN gate
            ELSE IF token.role = "Instructor" /\ found # "" THEN Thrown(found)
            ELSE IF token.role = "Instructor"
                    /\ ~canInstructorManageCourse(
                           token.sub, modules[lessons[lessonId].moduleId].courseId)
                 THEN Answer(403, "forbidden")
            ELSE IF thrown # "" THEN Thrown(thrown)
            ELSE Answer(201, "")
    IN  /\ IF answer.status = 201
           THEN /\ lessonContent' = Put(lessonContent, lessonId, input)
                /\ subscriptionsByUserId' =
                      getOrCreateSubscription(subscriptionsByUserId, token.sub)
           ELSE UNCHANGED <<lessonContent, subscriptionsByUserId>>
        /\ UNCHANGED <<courses, modules, lessons, enrollments, progress,
                       moduleIdsByCourse, lessonIdsByModule, enrollmentIdsByCourse,
                       progressIdsByEnrollment, enrollmentByCourseUser>>
        /\ UNCHANGED <<authVars, histVars>>
        /\ resp' = IF answer.status = 201
                   THEN [op |-> "content", status |-> 201, error |-> "",
                         sub |-> token.sub, lessonId |-> lessonId,
                         subscription |->
                            withSoftLimitMeta(
                               [lmsStore EXCEPT
                                   !.lessonContent =
                                       Put(lessonContent, lessonId, input)],
                               subscriptionsByUserId, token.sub)]
                   ELSE LmsResp("content", answer, token)

\* GET /subscription/me
GetSubscription(token) ==
    LET auth == authenticate(token)
    IN  /\ subscriptionsByUserId' =
              IF auth = "ok"
              THEN getOrCreateSubscription(subscriptionsByUserId, token.sub)
              ELSE subscriptionsByUserId
        /\ resp' = IF auth = "ok"
                   THEN [op |-> "subscription", status |-> 200, error |-> "",
                         sub |-> token.sub,
                         body |-> getSubscriptionStatus(lmsStore,
                                                        subscriptionsByUserId,
                                                        token.sub)]
                   ELSE LmsResp("subscription", Answer(401, auth), token)
        /\ UNCHANGED <<authVars, lmsVars, histVars>>

\* A plan change that any authenticated principal may make
planChangeOpen(token, input) ==
    IF authenticate(token) # "ok" THEN Answer(401, authenticate(token))
    ELSE IF ~Has(usersById, input.userId) THEN Answer(404, "not_found")
    ELSE Answer(200, "")

\* POST /subscription/plan: the answer of authenticate, authorize(["Admin"])
\* and the handler
planChange(token, input) ==
    IF authenticate(token) # "ok" THEN Answer(401, authenticate(token))
    ELSE IF ~authorize({"Admin"}, token) THEN Answer(403, "forbidden")
    ELSE IF ~Has(usersById, input.userId) THEN Answer(404, "not_found")
    ELSE Answer(200, "")

\* POST /subscription/plan (updatedAt is stored and read by no check)
PostPlan(token, input) ==
    LET answer == planChange(token, input)
    IN  /\ subscriptionsByUserId' =
              IF answer.status = 200
              THEN Put(subscriptionsByUserId, input.userId,
                       [userId |-> input.userId, plan |-> input.plan])
              ELSE subscriptionsByUserId
        /\ resp' = [op |-> "plan", status |-> answer.status, error |-> answer.error,
                    sub |-> token.sub, userId |-> input.userId, plan |-> input.plan]
        /\ UNCHANGED <<authVars, lmsVars, histVars>>

\* String(expiresAtEpoch): the decimal numeral of a natural
String(n) == ToString(n)

\* The numerals the model reads, and another spelling of each
Epochs == 0..(MaxTime + 2)
Spellings == [n \in Epochs |-> {String(n), "0" \o String(n)}]

\* Number(exp): NaN for text that is no numeral
Number(text) ==
    IF \E n \in Epochs : text \in Spellings[n]
    THEN [finite |-> TRUE, value |-> CHOOSE n \in Epochs : text \in Spellings[n]]
    ELSE [finite |-> FALSE, value |-> 0]

\* `${provider}:${key}:${lessonId}:${userId}:${exp}`
payloadOf(params) ==
    params.provider \o ":" \o params.key \o ":" \o params.lessonId \o ":"
       \o params.userId \o ":" \o params.exp

\* crypto.createHmac("sha256", secret).update(payload).digest("hex"): 64 hex
\* digits that the secret and the payload determine; two payloads or two
\* secrets never give the same digest.
createHmac(secret, payload) == [length |-> 64, hex |-> <<secret, payload>>]

\* crypto.timingSafeEqual(Buffer.from(a), Buffer.from(b)): throws a
\* RangeError for buffers of different lengths
timingSafeEqual(a, b) ==
    [throws |-> a.length # b.length, equal |-> a = b]

\* buildSignedLessonContentUrl: the signed parts of the URL. The clock counts
\* whole seconds, Math.floor(now().getTime() / 1000); the fileId of the URL
\* and the encodeURIComponent of its parts take no part in the signature.
buildSignedLessonContentUrl(signingSecret, clock, input) ==
    LET exp == String(clock + input.expiresInSeconds)
        parts == [provider |-> input.content.provider, key |-> input.content.key,
                  lessonId |-> input.lessonId, userId |-> input.userId, exp |-> exp]
    IN  [provider |-> parts.provider, key |-> parts.key, lessonId |-> parts.lessonId,
         userId |-> parts.userId, exp |-> exp,
         sig |-> createHmac(signingSecret, payloadOf(parts))]

\* A verification that never looks at the clock
verifyWithoutExpiry(signingSecret, clock, params) ==
    LET compared == timingSafeEqual(createHmac(signingSecret, payloadOf(params)),
                                    params.sig)
    IN  Number(params.exp).finite /\ ~compared.throws /\ compared.equal

\* verifySignedLessonContentUrl
verifySignedLessonContentUrl(signingSecret, clock, params) ==
    LET expNum == Number(params.exp)
        expected == createHmac(signingSecret, payloadOf(params))
        compared == timingSafeEqual(expected, params.sig)
    IN  IF ~expNum.finite THEN FALSE
        ELSE IF expNum.value <= clock THEN FALSE
        ELSE IF compared.throws THEN FALSE
        ELSE compared.equal

\* GET /lms/lessons/:lessonId/content-url: status 200 carries the signed URL
\* of the lesson's content for the principal.
GetContentUrl(token, lessonId) ==
    LET auth == authenticate(token)
        allowed == canUserAccessLessonContent([lessonId |-> lessonId,
                                               userId |-> token.sub,
                                               role |-> token.role])
        answer == IF auth # "ok" THEN Answer(401, auth)
                  ELSE IF ~allowed THEN Answer(403, "forbidden")
                  ELSE IF ~Has(lessonContent, lessonId) THEN Thrown("NOT_FOUND")
                  ELSE Answer(200, "")
        signed == buildSignedLessonContentUrl(
                     env.deliverySecret, now,
                     [userId |-> token.sub, lessonId |-> lessonId,
                      content |-> lessonContent[lessonId],
                      expiresInSeconds |-> env.deliveryTtl])
    IN  /\ resp' = IF answer.status = 200
                   THEN [op |-> "contentUrl", status |-> 200, error |-> "",
                         sub |-> token.sub, lessonId |-> lessonId,
                         url |-> signed, at |-> now]
                   ELSE [op |-> "contentUrl", status |-> answer.status,
                         error |-> answer.error, sub |-> token.sub,
                         lessonId |-> lessonId]
        /\ UNCHANGED <<authVars, subscriptionsByUserId, lmsVars, histVars>>

\* POST /lms/content-url/verify: status 200 carries the verdict
VerifyContentUrl(token, params) ==
    LET auth == authenticate(token)
        answer == IF auth # "ok" THEN Answer(401, auth)
                  ELSE IF token.role = "Student" /\ token.sub # params.userId
                       THEN Answer(403, "forbidden")
                  ELSE Answer(200, "")
    IN  /\ resp' = IF answer.status = 200
                   THEN [op |-> "verify", status |-> 200, error |-> "",
                         sub |-> token.sub, params |-> params,
                         valid |-> verifySignedLessonContentUrl(env.deliverySecret,
                                                                now, params)]
                   ELSE LmsResp("verify", answer, token)
        /\ UNCHANGED <<authVars, subscriptionsByUserId, lmsVars, histVars>>

\* GET /lms/instructor/dashboard/:courseId
GetDashboard(token, courseId) ==
    LET gate == lmsGate({"Admin", "Instructor"}, token)
        thrown == getInstructorDashboard([courseId |-> courseId, userId |-> token.sub,
                                          role |-> token.role])
        answer == IF gate.status # 0 THEN gate
                  ELSE IF thrown # "" THEN Thrown(thrown)
                  ELSE Answer(200, "")
    IN  /\ resp' = IF answer.status = 200
                   THEN [op |-> "dashboard", status |-> 200, error |-> "",
                         sub |-> token.sub, courseId |-> courseId,
                         body |-> instructorDashboard(courseId)]
                   ELSE LmsResp("dashboard", answer, token)
        /\ UNCHANGED <<authVars, subscriptionsByUserId, lmsVars, histVars>>

\* getEnrollment(enrollmentId): the error thrown, "" when none is
getEnrollment(enrollmentId) ==
    IF ~Has(enrollments, enrollmentId) THEN "NOT_FOUND" ELSE ""

\* The completion route without the test of whose enrollment a Student asks for
GetCompletionOfAnyStudent(token, enrollmentId) ==
    LET auth == authenticate(token)
        found == getEnrollment(enrollmentId)
        answer ==
            IF auth # "ok" THEN Answer(401, auth)
            ELSE IF found # "" THEN Thrown(found)
            ELSE IF token.role = "Instructor"
                    /\ ~canInstructorManageCourse(token.sub,
                                                  enrollments[enrollmentId].courseId)
                 THEN Answer(403, "forbidden")
            ELSE Answer(200, "")
    IN  /\ resp' = IF answer.status = 200
                   THEN [op |-> "completion", status |-> 200, error |-> "",
                         sub |-> token.sub, enrollmentId |-> enrollmentId,
                         completion |-> getCourseCompletionPercent(enrollmentId)]
                   ELSE LmsResp("completion", answer, token)
        /\ UNCHANGED <<authVars, subscriptionsByUserId, lmsVars, histVars>>

\* GET /lms/enrollments/:enrollmentId/completion: status 200 carries the
\* completion percent
GetCompletion(token, enrollmentId) ==
    LET auth == authenticate(token)
        found == getEnrollment(enrollmentId)
        answer ==
            IF auth # "ok" THEN Answer(401, auth)
            ELSE IF found # "" THEN Thrown(found)
            ELSE IF token.role = "Student"
                    /\ enrollments[enrollmentId].userId # token.sub
                 THEN Answer(403, "forbidden")
            ELSE IF token.role = "Instructor"
                    /\ ~canInstructorManageCourse(token.sub,
                                                  enrollments[enrollmentId].courseId)
                 THEN Answer(403, "forbidden")
            ELSE Answer(200, "")
    IN  /\ resp' = IF answer.status = 200
                   THEN [op |-> "completion", status |-> 200, error |-> "",
                         sub |-> token.sub, enrollmentId |-> enrollmentId,
                         completion |-> getCourseCompletionPercent(enrollmentId)]
                   ELSE LmsResp("completion", answer, token)
        /\ UNCHANGED <<authVars, subscriptionsByUserId, lmsVars, histVars>>

-----------------------------------------------------------------------------
(* The LMS routes, used by four principals who have logged in *)

\* The accounts that have logged in, in the order of their logins
LmsEmails == <<"admin@nav", "inst@nav", "stud@nav", "stud2@nav">>

\* The k-th login drew three ids: its OAuth state, its user and its session.
loginState(k) == randomId(3 * (k - 1))
loginUser(k) ==
    [id |-> randomId(3 * (k - 1) + 1), email |-> LmsEmails[k],
     role |-> roleForEmail(LmsEmails[k]), tokenVersion |-> 1]
loginRefresh(k) == issueRefreshToken(loginUser(k), randomId(3 * (k - 1) + 2))

\* The service once each of LmsEmails has logged in at time 0, before any
\* LMS request.
InitLmsIn(config) ==
    /\ now = 0 /\ nextId = 3 * Len(LmsEmails)
    /\ env = config
    /\ oauthStates = EmptyMap /\ pendingExchange = {} /\ refreshRequests = EmptyMap
    /\ usersByEmail = [e \in Range(LmsEmails) |->
                          loginUser(CHOOSE k \in DOMAIN LmsEmails : LmsEmails[k] = e)]
    /\ usersById = [id \in {loginUser(k).id : k \in DOMAIN LmsEmails} |->
                       loginUser(CHOOSE k \in DOMAIN LmsEmails : loginUser(k).id = id)]
    /\ subscriptionsByUserId = [id \in DOMAIN usersById |->
                                   [userId |-> id, plan |-> "free"]]
    /\ refreshSessions =
          [sid \in {loginRefresh(k).session.sessionId : k \in DOMAIN LmsEmails} |->
              loginRefresh(CHOOSE k \in DOMAIN LmsEmails :
                              loginRefresh(k).session.sessionId = sid).session]
    /\ issuedTokens = UNION {{signAccessToken(loginUser(k)), loginRefresh(k).token} :
                             k \in DOMAIN LmsEmails}
    /\ issuedStates = [state \in {loginState(k) : k \in DOMAIN LmsEmails} |-> 0]
    /\ LmsEmpty
    /\ rotatedTokens = EmptyMap /\ loggedOutTokens = {}
    /\ consumedStates = DOMAIN issuedStates
    /\ acceptedStates = [state \in DOMAIN issuedStates |-> 1]
    /\ successors = EmptyMap /\ racedTokens = {}
    /\ logins = {[accessToken |-> signAccessToken(loginUser(k)),
                  refreshToken |-> loginRefresh(k).token, at |-> 0] :
                 k \in DOMAIN LmsEmails}
    /\ resp = [op |-> "exchange", status |-> 200, error |-> ""]

\* The configuration in which the access and the refresh secret differ
InitLms == InitLmsIn(CHOOSE e \in Envs : e.accessSecret # e.refreshSecret)

\* The bearer tokens the LMS requests carry: the access tokens issued, and a
\* forged one
AccessTokens == {t \in issuedTokens : t.type = "access"} \cup {ForgedAccessToken}

StudentIds == {id \in DOMAIN usersById : usersById[id].role = "Student"}
Contents == {[provider |-> "s3", key |-> "f", size |-> toBig(1)]}

\* Course authoring, enrollment, progress and the instructor's views. The
\* request bodies: any non-empty string is an id, and some hold the ':' the
\* store joins its composite keys with.
CourseIds == {"c", "c:x"}
ModuleInputs == [id : {"m"}, courseId : CourseIds, position : {1}]
LessonInputs == [id : {"l"}, moduleId : {"m"}, position : {1}]
EnrollmentInputs == [id : {"e"}, courseId : CourseIds, userId : StudentIds]
ProgressInputs == [enrollmentId : {"e"}, lessonId : {"l"}, status : Statuses]

NextLms ==
    \/ \E token \in AccessTokens, id \in CourseIds : PostCourses(token, id)
    \/ \E token \in AccessTokens, input \in ModuleInputs : PostModules(token, input)
    \/ \E token \in AccessTokens, input \in LessonInputs : PostLessons(token, input)
    \/ \E token \in AccessTokens, input \in EnrollmentInputs :
          PostEnrollments(token, input)
    \/ \E token \in AccessTokens, input \in ProgressInputs : PatchProgress(token, input)
    \/ \E token \in AccessTokens, lessonId \in {"l"}, content \in Contents :
          PutContent(token, lessonId, content)
    \/ \E token \in AccessTokens, lessonId \in {"l"} : GetContentUrl(token, lessonId)
    \/ \E token \in AccessTokens, courseId \in CourseIds : GetDashboard(token, courseId)

SpecLms == InitLms /\ [][NextLms]_vars

\* Content delivery, with enrollments that name a userId holding a ':'
KeyEnrollmentInputs ==
    [id : {"e"}, courseId : CourseIds,
     userId : {loginUser(3).id, joinKey("x", loginUser(3).id)}]

NextKeys ==
    \/ \E token \in AccessTokens, id \in CourseIds : PostCourses(token, id)
    \/ \E token \in AccessTokens, input \in ModuleInputs : PostModules(token, input)
    \/ \E token \in AccessTokens, input \in LessonInputs : PostLessons(token, input)
    \/ \E token \in AccessTokens, input \in KeyEnrollmentInputs :
          PostEnrollments(token, input)
    \/ \E token \in AccessTokens, lessonId \in {"l"}, content \in Contents :
          PutContent(token, lessonId, content)
    \/ \E token \in AccessTokens, lessonId \in {"l"} : GetContentUrl(token, lessonId)

SpecKeys == InitLms /\ [][NextKeys]_vars

\* Enrollment of one student in two courses, by requests that differ in their
\* enrollment ids, and of a userId holding a ':'
PairEnrollmentInputs ==
    [id : {"e", "f", "g"}, courseId : CourseIds,
     userId : {loginUser(3).id, joinKey("x", loginUser(3).id)}]

\* The bearer tokens of these requests: those of the Admin, the Instructor
\* and the student, and the forged one
PairTokens == {token \in AccessTokens : token.sub # loginUser(4).id}

NextPairs ==
    \/ \E token \in PairTokens, id \in CourseIds : PostCourses(token, id)
    \/ \E token \in PairTokens :
          PostModules(token, [id |-> "m", courseId |-> "c:x", position |-> 1])
    \/ \E token \in PairTokens, input \in LessonInputs : PostLessons(token, input)
    \/ \E token \in PairTokens, input \in PairEnrollmentInputs :
          PostEnrollments(token, input)

SpecPairs == InitLms /\ [][NextPairs]_vars

\* Authoring by the Admin and an Instructor, with positions that repeat
AuthorTokens == {token \in AccessTokens : token.role # "Student"}
PositionModuleInputs == [id : {"m", "n"}, courseId : {"c", "d"}, position : {1, 2}]
PositionLessonInputs == [id : {"l", "k"}, moduleId : {"m"}, position : {1, 2}]

NextPositions ==
    \/ \E token \in AuthorTokens, id \in {"c", "d"} : PostCourses(token, id)
    \/ \E token \in AuthorTokens, input \in PositionModuleInputs :
          PostModules(token, input)
    \/ \E token \in AuthorTokens, input \in PositionLessonInputs :
          PostLessons(token, input)

SpecPositions == InitLms /\ [][NextPositions]_vars

\* One student working through one course that grows lesson by lesson
MaxLessons == 40
tokenOf(k) == CHOOSE token \in AccessTokens :
                 token.sub = loginUser(k).id /\ token # ForgedAccessToken
lessonName(k) == "l" \o ToString(k)
lessonsOfModule(moduleId) ==
    IF Has(lessonIdsByModule, moduleId) THEN Len(lessonIdsByModule[moduleId]) ELSE 0

NextPercent ==
    \/ PostCourses(tokenOf(1), "c")
    \/ PostModules(tokenOf(1), [id |-> "m", courseId |-> "c", position |-> 1])
    \/ PostEnrollments(tokenOf(3), [id |-> "e", courseId |-> "c",
                                    userId |-> loginUser(3).id])
    \/ \E k \in 1..MaxLessons :
          /\ k = lessonsOfModule("m") + 1
          /\ PostLessons(tokenOf(1), [id |-> lessonName(k), moduleId |-> "m",
                                      position |-> k])
    \/ \E k \in 1..MaxLessons :
          /\ k <= lessonsOfModule("m")
          /\ \A j \in 1..(k - 1) : Has(progress, joinKey("e", lessonName(j)))
                                    /\ progress[joinKey("e", lessonName(j))].status
                                          = "completed"
          /\ PatchProgress(tokenOf(3), [enrollmentId |-> "e",
                                        lessonId |-> lessonName(k),
                                        status |-> "completed"])
    \/ GetCompletion(tokenOf(3), "e")
    \/ GetDashboard(tokenOf(1), "c")

SpecPercent == InitLms /\ [][NextPercent]_vars

\* Content delivery: the Admin authors two lessons with content and asks for
\* their signed URLs; the URL received last is presented for verification,
\* as it is or altered, at once or after some time. The access tokens of
\* this configuration outlive the signed URLs.
InitDelivery == InitLmsIn(CHOOSE e \in Envs : e.accessTtl > e.deliveryTtl)

DeliveryTokens == {token \in AccessTokens :
                      token.sub \in {loginUser(1).id, loginUser(3).id}
                      /\ token # ForgedAccessToken}
DeliveryLessons == {[id |-> "k:l", moduleId |-> "m", position |-> 1],
                    [id |-> "l", moduleId |-> "m", position |-> 2]}
DeliveryContents ==
    {[lessonId |-> "k:l", provider |-> "s3", key |-> "f", size |-> toBig(1)],
     [lessonId |-> "l", provider |-> "s3", key |-> "f:k", size |-> toBig(1)]}

\* Signatures that were not made with the signing secret: one too short,
\* one of the right length
OtherSigs == {[length |-> 3, hex |-> <<"", "">>], [length |-> 64, hex |-> <<"", "">>]}

\* The parameter tuples presented for a signed URL: its own, those that
\* differ from it in some of the five fields, and its own with another
\* signature
Presented(url) ==
    [provider : {url.provider, "r2"}, key : {"f", "f:k"}, lessonId : {"k:l", "l"},
     userId : {url.userId, loginUser(3).id},
     exp : {url.exp, "0" \o url.exp, String(Number(url.exp).value + 1), "soon"},
     sig : {url.sig}]
       \cup {[url EXCEPT !.sig = sig] : sig \in OtherSigs}

\* Time passes between two requests
Wait ==
    /\ now < MaxTime
    /\ now' = now + 1
    /\ UNCHANGED <<nextId, env, oauthStates, usersByEmail, usersById, refreshSessions,
                   pendingExchange, refreshRequests, issuedTokens, issuedStates,
                   subscriptionsByUserId, lmsVars, resp, histVars>>

NextDelivery ==
    \/ PostCourses(tokenOf(1), "c")
    \/ PostModules(tokenOf(1), [id |-> "m", courseId |-> "c", position |-> 1])
    \/ \E input \in DeliveryLessons : PostLessons(tokenOf(1), input)
    \/ \E content \in DeliveryContents :
          PutContent(tokenOf(1), content.lessonId, content)
    \/ \E token \in DeliveryTokens, lessonId \in {"k:l", "l"} :
          GetContentUrl(token, lessonId)
    \/ /\ resp.op = "contentUrl" /\ resp.status = 200
       /\ \E token \in DeliveryTokens, params \in Presented(resp.url) :
             VerifyContentUrl(token, params)
    \/ Wait

SpecDelivery == InitDelivery /\ [][NextDelivery]_vars

\* Logins side by side: GET /auth/google/start has handed out MaxLogins
\* states at time 0, and the callbacks for them are in flight together
MaxLogins == 3
MaxLoginIds == 7

InitLogins ==
    /\ now = 0 /\ nextId = MaxLogins
    /\ env = CHOOSE e \in Envs : e.accessSecret # e.refreshSecret
    /\ oauthStates = [state \in {randomId(k) : k \in 0..(MaxLogins - 1)} |-> 0]
    /\ issuedStates = oauthStates
    /\ usersByEmail = EmptyMap /\ usersById = EmptyMap
    /\ subscriptionsByUserId = EmptyMap /\ refreshSessions = EmptyMap
    /\ pendingExchange = {} /\ refreshRequests = EmptyMap
    /\ issuedTokens = {}
    /\ LmsEmpty /\ HistEmpty
    /\ resp = [op |-> "start", status |-> 200, error |-> ""]

SideBySideEmails == {"stud@nav", "STUD@nav", "both@nav"}

NextLogins ==
    \/ \E state \in DOMAIN issuedStates : CallbackBegin(state)
    \/ \E state \in pendingExchange : CallbackExchangeFails(state)
    \/ \E state \in pendingExchange, email \in SideBySideEmails :
          exchangeReturns(state, email, Len(IdPool))
    \/ \E token \in IssuedFor(env.refreshSecret) : 
          /\ refreshWithin(token, MaxLoginIds)
          /\ UNCHANGED refreshRequests
    \/ \E token \in IssuedFor(env.accessSecret) : Protected("me", token)

SpecLogins == InitLogins /\ [][NextLogins]_vars

\* Sessions of two accounts, one of them logged in twice: GET
\* /auth/google/start has handed out a state for each login, the callbacks
\* are made one after the other, and then tokens are rotated and logged out
\* while time passes.
SessionLogins == <<"stud@nav", "STUD@nav", "both@nav">>
MaxRotations == 1
SessionIds ==
    2 * Len(SessionLogins)
       + Cardinality({toLowerCase(SessionLogins[k]) : k \in DOMAIN SessionLogins})
       + MaxRotations

InitSessions ==
    /\ now = 0 /\ nextId = Len(SessionLogins)
    /\ env = CHOOSE e \in Envs : e.accessSecret # e.refreshSecret
    /\ oauthStates = [state \in {randomId(k - 1) : k \in DOMAIN SessionLogins} |-> 0]
    /\ issuedStates = oauthStates
    /\ usersByEmail = EmptyMap /\ usersById = EmptyMap
    /\ subscriptionsByUserId = EmptyMap /\ refreshSessions = EmptyMap
    /\ pendingExchange = {} /\ refreshRequests = EmptyMap
    /\ issuedTokens = {}
    /\ LmsEmpty /\ HistEmpty
    /\ resp = [op |-> "start", status |-> 200, error |-> ""]

LoggedIn == oauthStates = EmptyMap /\ pendingExchange = {}

SessionTokens == TokensFor(env.refreshSecret, ForgedRefreshToken)

NextSessions ==
    \/ /\ pendingExchange = {}
       /\ oauthStates # EmptyMap
       /\ CallbackBegin(randomId(Cardinality(consumedStates)))
    \/ \E state \in pendingExchange :
          exchangeReturns(state, SessionLogins[Cardinality(consumedStates)],
                          Len(IdPool))
    \/ /\ LoggedIn
       /\ \E token \in SessionTokens :
             /\ refreshWithin(token, SessionIds)
             /\ UNCHANGED refreshRequests
    \/ LoggedIn /\ \E token \in SessionTokens : Logout(token)
    \/ LoggedIn /\ Tick

SpecSessions == InitSessions /\ [][NextSessions]_vars

\* Requests handled while callbacks are suspended in the identity exchange:
\* the callbacks of the same logins in any order and side by side, and
\* rotation, logout and course creation with the tokens of the logins that
\* have completed
SessionEmail(state) ==
    SessionLogins[CHOOSE k \in DOMAIN SessionLogins : randomId(k - 1) = state]

\* The tokens of the admin among the logins, once that login has completed
WaitingTokens(secret) ==
    {token \in IssuedFor(secret) :
        /\ Has(usersById, token.sub)
        /\ usersById[token.sub].role = "Admin"}

NextWaiting ==
    \/ \E state \in DOMAIN issuedStates : CallbackBegin(state)
    \/ \E state \in pendingExchange : CallbackExchangeFails(state)
    \/ \E state \in pendingExchange :
          exchangeReturns(state, SessionEmail(state), Len(IdPool))
    \/ /\ pendingExchange # {}
       /\ \E token \in WaitingTokens(env.refreshSecret) :
             /\ refreshWithin(token, SessionIds)
             /\ UNCHANGED refreshRequests
    \/ /\ pendingExchange # {}
       /\ \E token \in WaitingTokens(env.refreshSecret) : Logout(token)
    \/ /\ pendingExchange # {}
       /\ \E token \in WaitingTokens(env.accessSecret) : PostCourses(token, "c")

SpecWaiting == InitSessions /\ [][NextWaiting]_vars

\* The same logins, with refresh tokens the service has not issued.
\* JWT_REFRESH_SECRET is configuration, and the service need not be its only
\* holder: the refresh route is given, besides the tokens it has issued,
\* tokens another holder of the secret has signed, which name a session of
\* the service with another expiry or another subject, or name no session.
SignedElsewhere ==
    UNION {{[l.refreshToken EXCEPT !.exp = MaxTime + 10],
            [l.refreshToken EXCEPT !.sub = "elsewhere"],
            [l.refreshToken EXCEPT !.sid = "elsewhere"]} : l \in logins}

NextPresented ==
    \/ /\ pendingExchange = {}
       /\ oauthStates # EmptyMap
       /\ CallbackBegin(randomId(Cardinality(consumedStates)))
    \/ \E state \in pendingExchange :
          exchangeReturns(state, SessionLogins[Cardinality(consumedStates)],
                          Len(IdPool))
    \/ /\ LoggedIn
       /\ \E token \in SessionTokens \cup SignedElsewhere :
             /\ refreshWithin(token, SessionIds)
             /\ UNCHANGED refreshRequests
    \/ LoggedIn /\ Tick

SpecPresented == InitSessions /\ [][NextPresented]_vars

\* Stored content in two courses: sizes of a few bytes and the largest size
\* the schema of the content route takes from a client that sends integers
\* it can count with, Number.MAX_SAFE_INTEGER
StorageModuleInputs == {[id |-> "m", courseId |-> "c", position |-> 1],
                        [id |-> "n", courseId |-> "d", position |-> 1]}
StorageLessonInputs == {[id |-> "l", moduleId |-> "m", position |-> 1],
                        [id |-> "k", moduleId |-> "m", position |-> 2],
                        [id |-> "j", moduleId |-> "n", position |-> 1]}
StorageContents == {[provider |-> "s3", key |-> "f", size |-> toBig(2048)],
                    [provider |-> "r2", key |-> "f", size |-> toBig(2)],
                    [provider |-> "s3", key |-> "f", size |-> MAX_SAFE_INTEGER]}

NextStorage ==
    \/ \E id \in {"c", "d"} : PostCourses(tokenOf(2), id)
    \/ \E input \in StorageModuleInputs : PostModules(tokenOf(2), input)
    \/ \E input \in StorageLessonInputs : PostLessons(tokenOf(2), input)
    \/ \E lessonId \in {"l", "k", "j"}, content \in StorageContents :
          PutContent(tokenOf(2), lessonId, content)
    \/ \E token \in {tokenOf(1), tokenOf(2)}, courseId \in {"c", "d"} :
          GetDashboard(token, courseId)

SpecStorage == InitLms /\ [][NextStorage]_vars

\* Plans and usage: an instructor creates up to three courses and stores
\* content, an admin enrolls, and principals of every role ask for plan changes
PlanTokens == {tokenOf(1), tokenOf(2), tokenOf(3)}
PlanCourseIds == {"c1", "c2", "c3"}
PlanInputs ==
    [userId : {loginUser(2).id}, plan : Plans]
       \cup [userId : {loginUser(3).id, "nobody"}, plan : {"enterprise"}]
PlanContents ==
    {[provider |-> "s3", key |-> "f", size |-> toBig(50 * 1024 * 1024)],
     [provider |-> "r2", key |-> "f", size |-> toBig(50 * 1024 * 1024 + 1)]}

NextPlans ==
    \/ \E id \in PlanCourseIds : PostCourses(tokenOf(2), id)
    \/ PostModules(tokenOf(2), [id |-> "m", courseId |-> "c1", position |-> 1])
    \/ PostLessons(tokenOf(2), [id |-> "l", moduleId |-> "m", position |-> 1])
    \/ \E content \in PlanContents : PutContent(tokenOf(2), "l", content)
    \/ PostEnrollments(tokenOf(1), [id |-> "e", courseId |-> "c1",
                                    userId |-> loginUser(2).id])
    \/ \E token \in PlanTokens : GetSubscription(token)
    \/ \E token \in PlanTokens, input \in PlanInputs :
          /\ token.role = "Admin" => input.userId # loginUser(3).id
          /\ PostPlan(token, input)

SpecPlans == InitLms /\ [][NextPlans]_vars

\* Every protected endpoint, asked with and without a valid access token.
\* The access and the refresh secret are the same here, so that a refresh
\* token passes jwt.verify and is turned away for its type only.
InitGate == InitLmsIn(CHOOSE e \in Envs : e.accessSecret = e.refreshSecret)

\* What a request may carry as its bearer token: nothing, a forged token,
\* the refresh token of the admin, and the access tokens of the admin and
\* of a student, which expire as time passes
GateTokens == {NoToken, ForgedAccessToken, loginRefresh(1).token,
               tokenOf(1), tokenOf(3)}

GateParams == [provider |-> "s3", key |-> "f", lessonId |-> "l",
               userId |-> loginUser(3).id, exp |-> "1",
               sig |-> [length |-> 64, hex |-> <<"", "">>]]

\* One request to each protected endpoint
GateRequest(token) ==
    \/ Protected("me", token)
    \/ Protected("rbacAdmin", token)
    \/ GetSubscription(token)
    \/ PostPlan(token, [userId |-> loginUser(3).id, plan |-> "pro"])
    \/ PostCourses(token, "c")
    \/ PostModules(token, [id |-> "m", courseId |-> "c", position |-> 1])
    \/ PostLessons(token, [id |-> "l", moduleId |-> "m", position |-> 1])
    \/ PostEnrollments(token, [id |-> "e", courseId |-> "c",
                               userId |-> loginUser(3).id])
    \/ PatchProgress(token, [enrollmentId |-> "e", lessonId |-> "l",
                             status |-> "completed"])
    \/ PutContent(token, "l", [provider |-> "s3", key |-> "f", size |-> toBig(1)])
    \/ GetContentUrl(token, "l")
    \/ VerifyContentUrl(token, GateParams)
    \/ GetDashboard(token, "c")
    \/ GetCompletion(token, "e")

NextGate ==
    \/ \E token \in GateTokens : GateRequest(token)
    \/ Tick

SpecGate == InitGate /\ [][NextGate]_vars

\* The completion of enrollments, asked for by every principal: the course
\* is created by the admin or by the instructor, and the admin enrolls the
\* students
ReaderEnrollmentInputs == [id : {"e", "f"}, courseId : {"c"}, userId : StudentIds]

NextReaders ==
    \/ \E token \in {tokenOf(1), tokenOf(2)} : PostCourses(token, "c")
    \/ \E input \in ReaderEnrollmentInputs : PostEnrollments(tokenOf(1), input)
    \/ \E token \in AccessTokens, enrollmentId \in {"e", "f"} :
          GetCompletion(token, enrollmentId)

SpecReaders == InitLms /\ [][NextReaders]_vars

\* Progress in one course, with enrollment and lesson ids that hold a ':'
RowLessonInputs == {[id |-> "l", moduleId |-> "m", position |-> 1],
                    [id |-> "x:l", moduleId |-> "m", position |-> 2]}
RowEnrollmentInputs == [id : {"e", "e:x"}, courseId : {"c"}, userId : StudentIds]
RowProgressInputs == [enrollmentId : {"e", "e:x"}, lessonId : {"l", "x:l"},
                      status : {"completed"}]

NextRows ==
    \/ \E token \in AccessTokens : PostCourses(token, "c")
    \/ \E token \in AccessTokens :
          PostModules(token, [id |-> "m", courseId |-> "c", position |-> 1])
    \/ \E token \in AccessTokens, input \in RowLessonInputs : PostLessons(token, input)
    \/ \E token \in AccessTokens, input \in RowEnrollmentInputs :
          PostEnrollments(token, input)
    \/ \E token \in AccessTokens, input \in RowProgressInputs :
          PatchProgress(token, input)
    \/ \E token \in AccessTokens : GetDashboard(token, "c")
    \/ \E token \in AccessTokens, enrollmentId \in {"e", "e:x"} :
          GetCompletion(token, enrollmentId)

SpecRows == InitLms /\ [][NextRows]_vars

-----------------------------------------------------------------------------
(* Refresh rotation, logout and the OAuth state *)

\* What POST /auth/refresh answers to a token that has been rotated: the
\* session check fails while the token's own expiry has not been reached.
replayCheck(t) == IF now >= t.exp THEN "refresh_token_expired"
                  ELSE "refresh_session_invalid"

\* C1 (as stated): at most one refresh succeeds for a refresh token, and once
\* one has succeeded every later presentation of the token is rejected with
\* 401 refresh_session_invalid.
C1_ReplaySessionInvalid ==
    \A t \in DOMAIN rotatedTokens :
        /\ Cardinality(successors[t]) = 1
        /\ refreshCheck(t) = "refresh_session_invalid"

\* C1 (amended): at most one refresh succeeds for a refresh token, and once
\* one has succeeded every later presentation of the token is rejected with
\* 401: refresh_session_invalid until the token's own expiry is reached,
\* refresh_token_expired from then on.
C1_ReplayRejected ==
    /\ \A t \in DOMAIN rotatedTokens :
          /\ Cardinality(successors[t]) = 1
          /\ refreshCheck(t) = replayCheck(t)
    /\ (resp.op = "refresh" /\ Has(rotatedTokens, resp.token) /\ resp.status # 200)
          => resp.status = 401 /\ resp.error = replayCheck(resp.token)

\* A rotated token has been presented again before its expiry, and rejected.
C1_Replayed ==
    /\ resp.op = "refresh" /\ resp.status = 401
    /\ resp.error = "refresh_session_invalid"
    /\ Has(rotatedTokens, resp.token)
    /\ now > rotatedTokens[resp.token]

\* C2: of refresh requests in flight together with one token, one at most
\* succeeds: a token never has two successor sessions, and once one request
\* has rotated the token the others are answered refresh_session_invalid or
\* refresh_session_mismatch (the token not having expired meanwhile).
C2_OneRotationWins ==
    /\ \A t \in DOMAIN successors : Cardinality(successors[t]) <= 1
    /\ \A t \in DOMAIN refreshRequests :
          (Has(rotatedTokens, t) /\ now < t.exp)
             => refreshCheck(t) \in {"refresh_session_invalid",
                                     "refresh_session_mismatch"}
    /\ (resp.op = "refresh" /\ resp.token \in racedTokens /\ resp.status # 200
           /\ now < resp.token.exp)
          => resp.error \in {"refresh_session_invalid", "refresh_session_mismatch"}

\* Two requests held one token together: one has rotated it, the other has
\* been answered 401, both at the same instant.
C2_RaceLost ==
    /\ resp.op = "refresh" /\ resp.status = 401
    /\ resp.token \in racedTokens
    /\ rotatedTokens[resp.token] = now
    /\ Cardinality(successors[resp.token]) = 1

\* C3: after a logout has succeeded for a refresh token no refresh presenting
\* the token succeeds.
C3_NoRefreshAfterLogout ==
    /\ \A t \in loggedOutTokens :
          /\ refreshCheck(t) # "ok"
          /\ Has(rotatedTokens, t) => Cardinality(successors[t]) = 1
    /\ (resp.op = "refresh" /\ resp.token \in loggedOutTokens
           /\ ~Has(rotatedTokens, resp.token))
          => resp.status = 401

\* A token that was logged out, and never rotated, has been presented to
\* POST /auth/refresh and rejected.
C3_RefusedAfterLogout ==
    /\ resp.op = "refresh" /\ resp.status = 401
    /\ resp.token \in loggedOutTokens
    /\ ~Has(rotatedTokens, resp.token)
    /\ resp.error = "refresh_session_invalid"

\* C4: a state is accepted by the callback at most once: once a callback has
\* looked it up (and whatever became of that callback), any callback with
\* the state is answered invalid_state, also while the first one is still
\* suspended in the identity exchange.
C4_StateSingleUse ==
    /\ \A s \in consumedStates : callbackCheck(s) = "invalid_state"
    /\ \A s \in DOMAIN acceptedStates : acceptedStates[s] <= 1
    /\ (resp.op = "callback" /\ resp.status = 400 /\ resp.state \in DOMAIN acceptedStates)
          => resp.error = "invalid_state"

\* A second callback with a state has been answered invalid_state while the
\* first one is suspended in the identity exchange.
C4_SecondCallbackRefused ==
    /\ resp.op = "callback" /\ resp.error = "invalid_state"
    /\ resp.state \in pendingExchange

\* C5: a callback with an issued, not yet consumed state is answered
\* expired_state exactly when now - issuedAt exceeds the validity window, and
\* is accepted otherwise; with a state never issued or already consumed it is
\* answered invalid_state; when it answers expired_state no exchange is
\* started and no user, session or token is created.
C5_ExpiredExactlyAfterWindow ==
    [][resp'.op = "callback" =>
         LET s == resp'.state
             fresh == Has(issuedStates, s) /\ s \notin consumedStates
         IN  /\ (fresh /\ now - issuedStates[s] > OAuthStateTtl)
                   => /\ resp'.error = "expired_state" /\ resp'.status = 400
                      /\ UNCHANGED <<pendingExchange, usersByEmail, usersById,
                                     refreshSessions, issuedTokens,
                                     subscriptionsByUserId, nextId>>
             /\ (fresh /\ now - issuedStates[s] <= OAuthStateTtl)
                   => /\ resp'.error = "" /\ resp'.status = 0
                      /\ s \in pendingExchange'
             /\ ~fresh => resp'.error = "invalid_state" /\ resp'.status = 400
      ]_vars

\* A callback has been answered expired_state one tick past the window.
C5_ExpiredState ==
    /\ resp.op = "callback" /\ resp.error = "expired_state"
    /\ now - issuedStates[resp.state] = OAuthStateTtl + 1
    /\ usersById = EmptyMap /\ refreshSessions = EmptyMap

\* The tokens of a login whose access token has lived for the access TTL
AccessExpired(L) == now >= L.at + env.accessTtl
Unused(t) == ~Has(rotatedTokens, t) /\ t \notin loggedOutTokens

\* C6 (as stated): for every login, once the access TTL has elapsed the
\* access token is rejected with token_expired on every protected endpoint,
\* and at that moment a refresh with the login's unused refresh token
\* succeeds and yields an access token that is accepted.
C6_ExpiryThenRefresh ==
    /\ \A L \in logins :
          /\ AccessExpired(L) => authenticate(L.accessToken) = "token_expired"
          /\ (now = L.at + env.accessTtl /\ Unused(L.refreshToken))
                => refreshCheck(L.refreshToken) = "ok"
    /\ (resp.op = "protected" /\ \E L \in logins : L.accessToken = resp.token
                                                   /\ AccessExpired(L))
          => resp.status = 401 /\ resp.error = "token_expired"
    /\ (resp.op = "refresh" /\ resp.status = 200)
          => authenticate(resp.accessToken) = "ok"

\* C6 (amended): the same, for the configurations in which the refresh TTL
\* is longer than the access TTL.
C6_ExpiryThenRefreshLongerTtl ==
    env.refreshTtl > env.accessTtl => C6_ExpiryThenRefresh

\* The access token of a login has expired and, at that moment, the login's
\* refresh token has been rotated into an access token that is accepted.
C6_RefreshedAtExpiry ==
    /\ resp.op = "refresh" /\ resp.status = 200
    /\ \E L \in logins : /\ L.refreshToken = resp.token
                         /\ now = L.at + env.accessTtl
                         /\ authenticate(L.accessToken) = "token_expired"
    /\ authenticate(resp.accessToken) = "ok"

-----------------------------------------------------------------------------
(* Ownership, enrollment and progress in the LMS *)

Instructs(token) == authenticate(token) = "ok" /\ token.role = "Instructor"
Studies(token) == authenticate(token) = "ok" /\ token.role = "Student"
Foreign(token, courseId) ==
    Has(courses, courseId) /\ courses[courseId].createdBy # token.sub
Denied == resp'.status = 403 /\ UNCHANGED lmsVars

\* C7: an Instructor who asks to create a module in a course someone else
\* created, to create a lesson in a module of such a course, to attach
\* content to a lesson of such a course or to read its dashboard is
\* answered 403, and the store stays as it was.
C7_ForeignInstructorDenied ==
    [][\A token \in AccessTokens :
          Instructs(token) =>
             /\ \A input \in ModuleInputs :
                   (Foreign(token, input.courseId) /\ PostModules(token, input))
                      => Denied
             /\ \A input \in LessonInputs :
                   (/\ Has(modules, input.moduleId)
                    /\ Foreign(token, modules[input.moduleId].courseId)
                    /\ PostLessons(token, input))
                      => Denied
             /\ \A lessonId \in DOMAIN lessons, content \in Contents :
                   (/\ Foreign(token, modules[lessons[lessonId].moduleId].courseId)
                    /\ PutContent(token, lessonId, content))
                      => Denied
             /\ \A courseId \in CourseIds :
                   (Foreign(token, courseId) /\ GetDashboard(token, courseId))
                      => Denied
      ]_vars

\* An Instructor has asked to attach content to a lesson of a course that
\* someone else created, and has been answered 403.
C7_ContentWriteDenied ==
    /\ resp.op = "content" /\ resp.status = 403
    /\ usersById[resp.sub].role = "Instructor"
    /\ \E lessonId \in DOMAIN lessons :
          courses[modules[lessons[lessonId].moduleId].courseId].createdBy # resp.sub
    /\ lessonContent = EmptyMap

\* The course of a lesson that exists
courseOfLesson(lessonId) == modules[lessons[lessonId].moduleId].courseId

\* An Enrollment of the user in the course of the lesson exists
Enrolled(userId, lessonId) ==
    /\ Has(lessons, lessonId)
    /\ \E e \in DOMAIN enrollments :
          /\ enrollments[e].userId = userId
          /\ enrollments[e].courseId = courseOfLesson(lessonId)

\* C8: a Student is answered a signed content URL for a lesson only if an
\* Enrollment exists with the course of the lesson and the student's id; a
\* Student with no such Enrollment is answered 403.
C8_UrlOnlyForEnrolled ==
    (resp.op = "contentUrl" /\ resp.sub \in StudentIds /\ resp.status # 401)
       => IF Enrolled(resp.sub, resp.lessonId)
          THEN resp.status \in {200, 404}
          ELSE resp.status = 403

\* C9: a Progress row changes only by a PATCH /lms/progress of the Student
\* whose id is the userId of the row's Enrollment; the PATCH of anyone else
\* for an Enrollment that exists is answered 403 and changes no row.
C9_ProgressChangedByOwnerOnly ==
    [][/\ \A id \in DOMAIN progress :
             (id \in DOMAIN progress' /\ progress'[id] # progress[id])
                => /\ resp'.op = "progress" /\ resp'.status = 200
                   /\ resp'.sub \in StudentIds
                   /\ enrollments[progress[id].enrollmentId].userId = resp'.sub
       /\ \A token \in AccessTokens, input \in RowProgressInputs :
             (/\ authenticate(token) = "ok"
              /\ Has(enrollments, input.enrollmentId)
              /\ enrollments[input.enrollmentId].userId # token.sub
              /\ PatchProgress(token, input))
                => resp'.status = 403 /\ progress' = progress
      ]_vars

\* C10: a Student who asks to enroll a userId that is not the student's own
\* is answered 403 and no Enrollment or Progress row is created; an
\* Enrollment created by a Student's request has the student's id as userId.
C10_StudentEnrollsSelfOnly ==
    [][\A token \in AccessTokens, input \in EnrollmentInputs :
          (Studies(token) /\ PostEnrollments(token, input))
             => /\ input.userId # token.sub => Denied
                /\ \A e \in DOMAIN enrollments' \ DOMAIN enrollments :
                      enrollments'[e].userId = token.sub
      ]_vars

\* A Student has asked to enroll another student in a course that exists,
\* and has been answered 403 with no Enrollment made.
C10_EnrollOtherDenied ==
    /\ resp.op = "enrollments" /\ resp.status = 403
    /\ resp.sub \in StudentIds
    /\ courses # EmptyMap /\ enrollments = EmptyMap

-----------------------------------------------------------------------------
(* The progress fan-out, positions and references of the store *)

\* The Progress rows held for an enrollment and a lesson
rowsOf(enrollmentId, lessonId) ==
    {id \in DOMAIN progress : /\ progress[id].enrollmentId = enrollmentId
                              /\ progress[id].lessonId = lessonId}

\* The lesson's module belongs to the enrollment's course
InCourseOf(enrollmentId, lessonId) ==
    /\ Has(modules, lessons[lessonId].moduleId)
    /\ courseOfLesson(lessonId) = enrollments[enrollmentId].courseId

\* C11: for every Enrollment E and every Lesson L there is exactly one
\* Progress row for (E, L) if L's module belongs to E's course, and none
\* otherwise.
C11_OneRowPerEnrollmentLesson ==
    \A e \in DOMAIN enrollments, l \in DOMAIN lessons :
        Cardinality(rowsOf(e, l)) = IF InCourseOf(e, l) THEN 1 ELSE 0

\* C12: every dashboard answered is consistent: in each entry of
\* studentProgress totalLessons equals course.lessons, whatever lesson
\* creations, enrollments and progress updates were handled around the read.
C12_DashboardConsistent ==
    (resp.op = "dashboard" /\ resp.status = 200)
       => \A i \in DOMAIN resp.body.studentProgress :
             resp.body.studentProgress[i].totalLessons = resp.body.course.lessons

\* A dashboard has been answered for a course with two lessons and two
\* enrollments.
C12_DashboardRead ==
    /\ resp.op = "dashboard" /\ resp.status = 200
    /\ resp.body.course.lessons = 2 /\ resp.body.course.enrollments = 2
    /\ \E e \in DOMAIN progressIdsByEnrollment :
          Len(progressIdsByEnrollment[e]) = 2
    /\ lessonIdsByModule["m"] = <<"l", "x:l">>
    /\ enrollmentIdsByCourse["c"] = <<"e:x", "e">>

\* An Enrollment of the pair exists
EnrolledPair(courseId, userId) ==
    \E e \in DOMAIN enrollments : /\ enrollments[e].courseId = courseId
                                  /\ enrollments[e].userId = userId

\* C13: at most one Enrollment exists per (courseId, userId); of enroll
\* requests for one pair with different, unused enrollment ids, handled in
\* any order, the one handled while the pair has no Enrollment succeeds and
\* has its Progress rows fanned out, and one handled while the pair has an
\* Enrollment fails with Duplicate and changes nothing.
C13_OneEnrollmentPerPair ==
    [][/\ \A e1, e2 \in DOMAIN enrollments' :
             (/\ enrollments'[e1].courseId = enrollments'[e2].courseId
              /\ enrollments'[e1].userId = enrollments'[e2].userId) => e1 = e2
       /\ \A token \in PairTokens, input \in PairEnrollmentInputs :
             (/\ authenticate(token) = "ok" /\ ~enrollsForOther(token, input)
              /\ Has(courses, input.courseId) /\ ~Has(enrollments, input.id)
              /\ PostEnrollments(token, input))
                => IF EnrolledPair(input.courseId, input.userId)
                   THEN /\ resp'.status = 409 /\ resp'.error = "DUPLICATE"
                        /\ UNCHANGED lmsVars
                   ELSE /\ resp'.status = 201
                        /\ Has(enrollments', input.id)
                        /\ \A id \in DOMAIN progress' \ DOMAIN progress :
                              progress'[id].enrollmentId = input.id
      ]_vars

\* The request passes authenticate and lmsRoleGuard, and the ownership check
\* for the course
Authoring(token, courseId) ==
    /\ lmsGate({"Admin", "Instructor"}, token).status = 0
    /\ Has(courses, courseId)
    /\ token.role = "Instructor" => canInstructorManageCourse(token.sub, courseId)

Refused409 == resp'.status = 409 /\ resp'.error = "DUPLICATE" /\ UNCHANGED lmsVars

\* C14: no two Modules of one Course share a position and no two Lessons of
\* one Module share a position; a request to create a Module or a Lesson at
\* a position that its parent already holds is answered Duplicate (409) and
\* changes nothing.
C14_PositionsUnique ==
    [][/\ \A m1, m2 \in DOMAIN modules' :
             (/\ modules'[m1].courseId = modules'[m2].courseId
              /\ modules'[m1].position = modules'[m2].position) => m1 = m2
       /\ \A l1, l2 \in DOMAIN lessons' :
             (/\ lessons'[l1].moduleId = lessons'[l2].moduleId
              /\ lessons'[l1].position = lessons'[l2].position) => l1 = l2
       /\ \A token \in AuthorTokens, input \in PositionModuleInputs :
             (/\ Authoring(token, input.courseId)
              /\ \E m \in DOMAIN modules : /\ modules[m].courseId = input.courseId
                                            /\ modules[m].position = input.position
              /\ PostModules(token, input))
                => Refused409
       /\ \A token \in AuthorTokens, input \in PositionLessonInputs :
             (/\ Has(modules, input.moduleId)
              /\ Authoring(token, modules[input.moduleId].courseId)
              /\ \E l \in DOMAIN lessons : /\ lessons[l].moduleId = input.moduleId
                                            /\ lessons[l].position = input.position
              /\ PostLessons(token, input))
                => Refused409
      ]_vars

\* A Module with an unused id has been refused as a Duplicate: its course
\* holds a Module at the position asked for, and has room at another.
C14_PositionRefused ==
    /\ resp.op = "modules" /\ resp.status = 409 /\ ~Has(modules, resp.id)
    /\ \E m \in DOMAIN modules : modules[m].position = 2
    /\ \A m \in DOMAIN modules : modules[m].position = 2

Rejected == resp'.status \in {400, 401, 403, 404} /\ UNCHANGED lmsVars

\* C15: every Module names a Course that exists, every Lesson a Module,
\* every Enrollment a Course, every Progress row an Enrollment and a Lesson,
\* every LessonContent a Lesson; a request to insert a row whose parent does
\* not exist is rejected and changes nothing.
C15_ReferencesExist ==
    [][/\ \A m \in DOMAIN modules' : Has(courses', modules'[m].courseId)
       /\ \A l \in DOMAIN lessons' : Has(modules', lessons'[l].moduleId)
       /\ \A e \in DOMAIN enrollments' : Has(courses', enrollments'[e].courseId)
       /\ \A id \in DOMAIN progress' :
             /\ Has(enrollments', progress'[id].enrollmentId)
             /\ Has(lessons', progress'[id].lessonId)
       /\ \A l \in DOMAIN lessonContent' : Has(lessons', l)
       /\ \A token \in AccessTokens :
             /\ \A input \in ModuleInputs :
                   (~Has(courses, input.courseId) /\ PostModules(token, input))
                      => Rejected
             /\ \A input \in LessonInputs :
                   (~Has(modules, input.moduleId) /\ PostLessons(token, input))
                      => Rejected
             /\ \A input \in EnrollmentInputs :
                   (~Has(courses, input.courseId) /\ PostEnrollments(token, input))
                      => Rejected
             /\ \A lessonId \in {"l"}, content \in Contents :
                   (~Has(lessons, lessonId) /\ PutContent(token, lessonId, content))
                      => Rejected
      ]_vars

\* The Admin has asked to enroll a student in a course that does not exist,
\* while another course does, and has been answered InvalidRelation.
C15_OrphanRefused ==
    /\ resp.op = "enrollments" /\ resp.status = 400
    /\ resp.error = "INVALID_RELATION"
    /\ usersById[resp.sub].role = "Admin"
    /\ DOMAIN courses = {"c:x"} /\ enrollments = EmptyMap

\* C16: in every Progress row completedAt is set if and only if the status
\* is completed; a progress update that succeeds leaves its row with the
\* status asked for, completedAt set when that is completed and cleared
\* when it is not_started or in_progress, whatever the row held before.
C16_CompletedAtIffCompleted ==
    [][/\ \A id \in DOMAIN progress' :
             (progress'[id].completedAt # NoTime)
                <=> (progress'[id].status = "completed")
       /\ \A token \in AccessTokens, input \in ProgressInputs :
             (PatchProgress(token, input) /\ resp'.status = 200)
                => LET row == progress'[joinKey(input.enrollmentId, input.lessonId)]
                   IN  /\ row.status = input.status
                       /\ (row.completedAt # NoTime) <=> (input.status = "completed")
      ]_vars

\* A Progress row has been marked in_progress and holds no completedAt.
C16_CompletionCleared ==
    /\ resp.op = "progress" /\ resp.status = 200
    /\ \E id \in DOMAIN progress : /\ progress[id].status = "in_progress"
                                   /\ progress[id].completedAt = NoTime

\* C17: a PATCH /lms/progress leaves the set of Progress rows as it was, and
\* the update of an enrollment by its owner for a lesson that exists outside
\* the enrollment's course is answered InvalidRelation (400) and changes
\* nothing.
C17_UpdateCreatesNoRow ==
    [][\A token \in AccessTokens, input \in ProgressInputs :
          PatchProgress(token, input)
             => /\ DOMAIN progress' = DOMAIN progress
                /\ (/\ Studies(token)
                    /\ Has(enrollments, input.enrollmentId)
                    /\ enrollments[input.enrollmentId].userId = token.sub
                    /\ Has(lessons, input.lessonId)
                    /\ ~InCourseOf(input.enrollmentId, input.lessonId))
                      => /\ resp'.status = 400 /\ resp'.error = "INVALID_RELATION"
                         /\ UNCHANGED lmsVars
      ]_vars

\* A student's update of the student's own enrollment has been answered
\* InvalidRelation: the lesson exists in the other course.
C17_OutsideCourseRefused ==
    /\ resp.op = "progress" /\ resp.status = 400 /\ resp.error = "INVALID_RELATION"
    /\ Has(enrollments, "e") /\ enrollments["e"].userId = resp.sub
    /\ Has(lessons, "l") /\ ~InCourseOf("e", "l")
    /\ progress = EmptyMap

\* round(a / b), a half going up, for naturals a and b > 0
roundHalfUp(a, b) == (2 * a + b) \div (2 * b)

\* The lessons of the enrollment's course, and those of them whose Progress
\* row for the enrollment is completed
lessonsFor(enrollmentId) ==
    {l \in DOMAIN lessons : InCourseOf(enrollmentId, l)}
completedFor(enrollmentId) ==
    {l \in lessonsFor(enrollmentId) :
        \E id \in rowsOf(enrollmentId, l) : progress[id].status = "completed"}

\* 0 for a course without lessons, round(100 * K / N) otherwise
percentFor(enrollmentId) ==
    IF lessonsFor(enrollmentId) = {} THEN 0
    ELSE roundHalfUp(100 * Cardinality(completedFor(enrollmentId)),
                     Cardinality(lessonsFor(enrollmentId)))

\* C18: the completion percent answered by the completion endpoint, and the
\* completionPercent of every entry of a dashboard, is 0 when the course of
\* the enrollment has no lesson and round(100 * K / N), a half going up,
\* otherwise: N the number of lessons of the course, K the number of them
\* whose Progress row for the enrollment is completed.
C18_PercentRounded ==
    /\ (resp.op = "completion" /\ resp.status = 200)
          => resp.completion = percentFor(resp.enrollmentId)
    /\ (resp.op = "dashboard" /\ resp.status = 200)
          => \A i \in DOMAIN resp.body.studentProgress :
                resp.body.studentProgress[i].completionPercent
                   = percentFor(resp.body.studentProgress[i].enrollmentId)

-----------------------------------------------------------------------------
(* Signed content URLs *)

\* The five signed fields of a parameter tuple
signedFields(params) ==
    <<params.provider, params.key, params.lessonId, params.userId, params.exp>>

\* A signed URL has been handed out, and the next request has presented
\* parameters for verification and has been answered a verdict
Verified ==
    /\ resp.op = "contentUrl" /\ resp.status = 200
    /\ resp'.op = "verify" /\ resp'.status = 200

\* C19: a parameter tuple that differs from the tuple of a signed URL in at
\* least one of provider, key, lessonId, userId and exp, presented with the
\* signature of that URL, is verified as false.
C19_AlteredTupleInvalid ==
    [][Verified =>
          ((/\ resp'.params.sig = resp.url.sig
            /\ signedFields(resp'.params) # signedFields(resp.url))
              => resp'.valid = FALSE)
      ]_vars

\* C20: the parameters and the signature of a URL signed at time t with TTL
\* d, presented as they are, are verified as true at every time before
\* t + d and as false from t + d on; whatever is presented, the verdict is
\* a Boolean in a 200 answer, and it is false for an exp that is no number
\* and for a signature of the wrong length.
C20_RoundTripUntilExpiry ==
    [][(/\ resp.op = "contentUrl" /\ resp.status = 200
        /\ \E token \in DeliveryTokens, params \in Presented(resp.url) :
              /\ VerifyContentUrl(token, params)
              /\ authenticate(token) = "ok"
              /\ token.role = "Student" => token.sub = params.userId)
          => /\ resp'.status = 200 /\ resp'.valid \in BOOLEAN
             /\ resp'.params = resp.url
                   => (resp'.valid <=> now < resp.at + env.deliveryTtl)
             /\ ~Number(resp'.params.exp).finite => resp'.valid = FALSE
             /\ resp'.params.sig.length # 64 => resp'.valid = FALSE
      ]_vars

\* A signed URL has been presented as it was handed out, at the second it
\* expires, and has been verified as false.
C20_ExpiredAtTtl ==
    /\ resp.op = "verify" /\ resp.status = 200 /\ resp.valid = FALSE
    /\ resp.params.sig = createHmac(env.deliverySecret, payloadOf(resp.params))
    /\ Number(resp.params.exp).value = now
    /\ now = env.deliveryTtl

-----------------------------------------------------------------------------
(* Subscription plans *)

\* The usage of a user, counted from the Domain Store as it is
courseCount(userId) ==
    Cardinality({c \in DOMAIN courses : courses[c].createdBy = userId})

enrollmentCount(userId) ==
    Cardinality({e \in DOMAIN enrollments : enrollments[e].userId = userId})

\* The value of digits that stay below 2^31
RECURSIVE bigValue(_)
bigValue(x) == IF x = <<>> THEN 0 ELSE Head(x) + Base * bigValue(Tail(x))

RECURSIVE bytesOf(_)
bytesOf(lessonIds) ==
    IF lessonIds = {} THEN 0
    ELSE LET lessonId == CHOOSE l \in lessonIds : TRUE
         IN  bigValue(lessonContent[lessonId].size)
                + bytesOf(lessonIds \ {lessonId})

storedBytes(userId) ==
    bytesOf({l \in DOMAIN lessonContent :
                /\ Has(lessons, l) /\ Has(modules, lessons[l].moduleId)
                /\ Has(courses, courseOfLesson(l))
                /\ courses[courseOfLesson(l)].createdBy = userId})

\* The excess of a usage over the limit a plan sets for it; the limits of
\* pro on storage and of enterprise lie above every usage counted here
excessOver(usage, plan, free, pro) ==
    IF plan = "free" /\ usage > free THEN usage - free
    ELSE IF plan = "pro" /\ pro > 0 /\ usage > pro THEN usage - pro
    ELSE 0

PlanStatusRead == resp.op = "subscription" /\ resp.status = 200

excessesAfter(userId) ==
    LET plan == subscriptionsByUserId'[userId].plan
    IN  [createdCoursesExceededBy |-> excessOver(courseCount(userId)', plan, 2, 20),
         activeEnrollmentsExceededBy |->
            excessOver(enrollmentCount(userId)', plan, 5, 100),
         ownedStorageBytesExceededBy |->
            excessOver(storedBytes(userId)', plan, 50 * 1024 * 1024, 0)]

\* The answer of a write carries the excesses of the user and says that a
\* soft limit is exceeded exactly when one of them is above 0
Annotated(userId) ==
    /\ [field \in DOMAIN resp'.subscription.softLimit |->
           bigValue(resp'.subscription.softLimit[field])] = excessesAfter(userId)
    /\ resp'.subscription.softLimitExceeded
          <=> \E field \in DOMAIN resp'.subscription.softLimit :
                 bigValue(resp'.subscription.softLimit[field]) > 0

\* C22: whether a course creation, an enrollment or a content attachment by
\* a principal the route admits succeeds depends on the Domain Store and the
\* request alone, never on a plan or a usage: the course is created when
\* its id is new, the enrollment when its course exists and its id and its
\* pair are new, the content is attached when its lesson exists; and the
\* answer of a write that succeeds says softLimitExceeded exactly when one
\* of the exceededBy fields is above 0.
C22_LimitsAreSoft ==
    [][/\ \A id \in PlanCourseIds :
             PostCourses(tokenOf(2), id)
                => /\ resp'.status = 201 <=> ~Has(courses, id)
                   /\ resp'.status = 201
                         => /\ Has(courses', id)
                            /\ Annotated(loginUser(2).id)
       /\ \A userId \in {loginUser(2).id, loginUser(3).id} :
             PostEnrollments(tokenOf(1), [id |-> "e", courseId |-> "c1",
                                          userId |-> userId])
                => /\ resp'.status = 201
                         <=> /\ Has(courses, "c1") /\ ~Has(enrollments, "e")
                             /\ ~EnrolledPair("c1", userId)
                   /\ resp'.status = 201
                         => /\ Has(enrollments', "e")
                            /\ Annotated(userId)
       /\ \A content \in PlanContents :
             PutContent(tokenOf(2), "l", content)
                => /\ resp'.status = 201 <=> Has(lessons, "l")
                   /\ resp'.status = 201
                         => /\ lessonContent'["l"].size = content.size
                            /\ Annotated(loginUser(2).id)
      ]_vars

\* A third course has been created on the free plan: the write succeeded
\* and its answer says that a soft limit is exceeded
C22_ThirdCourseCreated ==
    /\ resp.op = "courses" /\ resp.status = 201
    /\ courseCount(resp.sub) = 3
    /\ resp.subscription.plan = "free"
    /\ resp.subscription.softLimitExceeded

\* The plan of a user: free until a SubscriptionRecord says otherwise
planOf(subs, userId) == IF Has(subs, userId) THEN subs[userId].plan ELSE "free"

\* C23: the plan of a user changes only in a step that answers 200 to a
\* POST /subscription/plan of an Admin that names the user; the request of
\* an Instructor or a Student is answered 403 and leaves every
\* SubscriptionRecord as it was, whatever its userId and plan are.
C23_PlanChangedByAdminOnly ==
    [][/\ \A userId \in DOMAIN subscriptionsByUserId' :
             planOf(subscriptionsByUserId', userId)
                   # planOf(subscriptionsByUserId, userId)
                => /\ resp'.op = "plan" /\ resp'.status = 200
                   /\ resp'.userId = userId
                   /\ usersById[resp'.sub].role = "Admin"
       /\ \A token \in PlanTokens, input \in PlanInputs :
             (PostPlan(token, input) /\ token.role # "Admin")
                => /\ resp'.status = 403
                   /\ subscriptionsByUserId' = subscriptionsByUserId
      ]_vars

\* A principal that is no Admin has asked for a plan for its own id and has
\* been refused
C23_OwnPlanRefused ==
    /\ resp.op = "plan" /\ resp.status = 403
    /\ resp.userId = resp.sub
    /\ planOf(subscriptionsByUserId, resp.sub) # resp.plan

-----------------------------------------------------------------------------
(* Users *)

\* The lower-cased form of an email address
lowered(email) == IF email = "STUD@nav" THEN "stud@nav" ELSE email

\* The role the allow-lists give to an email address
allowListed(email) ==
    IF lowered(email) \in {"admin@nav", "both@nav"} THEN "Admin"
    ELSE IF lowered(email) \in {"inst@nav", "both@nav"} THEN "Instructor"
    ELSE "Student"

\* C24: every User has the role the allow-lists give to its email, Admin
\* before Instructor before Student; no step changes the role of a User
\* that exists; and every access token the service has issued carries the
\* role of its User.
C24_RoleFixedAtCreation ==
    [][/\ \A id \in DOMAIN usersById' :
             /\ usersById'[id].role = allowListed(usersById'[id].email)
             /\ Has(usersById, id) => usersById'[id].role = usersById[id].role
       /\ \A token \in issuedTokens' :
             token.type = "access" => token.role = usersById'[token.sub].role
      ]_vars

\* A User on both allow-lists has logged in twice and has had a token
\* rotated, and is an Admin
C24_AdminLoggedInAgain ==
    /\ Has(usersByEmail, "both@nav") /\ usersByEmail["both@nav"].role = "Admin"
    /\ \E a, b \in logins : /\ a # b
                             /\ a.accessToken.sub = usersByEmail["both@nav"].id
                             /\ b.accessToken.sub = usersByEmail["both@nav"].id
    /\ \E token \in DOMAIN rotatedTokens : token.sub = usersByEmail["both@nav"].id

\* The two user maps hold the same users, one per lower-cased email
OneUserPerEmail ==
    /\ \A e \in DOMAIN usersByEmail :
          /\ usersByEmail[e].email = e
          /\ Has(usersById, usersByEmail[e].id)
          /\ usersById[usersByEmail[e].id] = usersByEmail[e]
    /\ \A id \in DOMAIN usersById :
          /\ usersById[id].id = id
          /\ Has(usersByEmail, usersById[id].email)
          /\ usersByEmail[usersById[id].email] = usersById[id]
    /\ \A a, b \in DOMAIN usersById :
          lowered(usersById[a].email) = lowered(usersById[b].email) => a = b

\* C25: in every state the by-email and the by-id map hold the same users
\* and no two users have one lower-cased email; a callback whose exchange
\* returns an email creates a User exactly when no User has the lower-cased
\* email yet, and the tokens it answers with name the one User of that
\* email, whatever other callbacks are suspended at that time.
C25_OneUserPerEmail ==
    [][/\ OneUserPerEmail'
       /\ \A state \in pendingExchange, email \in SideBySideEmails :
             exchangeReturns(state, email, Len(IdPool))
                => /\ Cardinality(DOMAIN usersById')
                         = Cardinality(DOMAIN usersById)
                              + (IF \E id \in DOMAIN usersById :
                                       usersById[id].email = lowered(email)
                                 THEN 0 ELSE 1)
                   /\ \A login \in logins' \ logins :
                         usersById'[login.accessToken.sub].email = lowered(email)
      ]_vars

\* Three callbacks were suspended together; two of them have returned, for
\* one User, and the third is still suspended
C25_OneUserForTwoCallbacks ==
    /\ resp.op = "exchange" /\ resp.status = 200
    /\ Cardinality(pendingExchange) = 1
    /\ DOMAIN oauthStates = {}
    /\ Cardinality(DOMAIN usersById) = 1
    /\ Cardinality(logins) = 2

-----------------------------------------------------------------------------
(* Logout *)

\* The refresh token verifies, and its session is revoked already
RevokedBefore(token) ==
    /\ jwtVerify(token, env.refreshSecret) = "ok" /\ token.type = "refresh"
    /\ Has(refreshSessions, token.sid)
    /\ refreshSessions[token.sid].revokedAt # NoTime

\* C26: a logout with a refresh token that verifies and whose session is
\* revoked already, by an earlier logout or by a rotation, answers success
\* and leaves the session store as it was, revokedAt included.
C26_LogoutIdempotent ==
    [][\A token \in TokensFor(env.refreshSecret, ForgedRefreshToken) :
          (Logout(token) /\ RevokedBefore(token))
             => /\ resp'.status = 200
                /\ refreshSessions' = refreshSessions
      ]_vars

\* A second logout has succeeded, later than the first, for a token that
\* was never rotated: the session keeps the time of the first
C26_LoggedOutTwice ==
    /\ resp.op = "logout" /\ resp.status = 200
    /\ ~Has(rotatedTokens, resp.token)
    /\ Has(refreshSessions, resp.token.sid)
    /\ refreshSessions[resp.token.sid].revokedAt # NoTime
    /\ refreshSessions[resp.token.sid].revokedAt < now

-----------------------------------------------------------------------------
(* Storage usage *)

\* The lessons of a course that have a LessonContent record
storedLessons(courseId) ==
    {l \in DOMAIN lessonContent :
        /\ Has(lessons, l) /\ Has(modules, lessons[l].moduleId)
        /\ courseOfLesson(l) = courseId}

\* The sum of the sizes of the records of some lessons, as digits
RECURSIVE sizeOf(_)
sizeOf(lessonIds) ==
    IF lessonIds = {} THEN <<>>
    ELSE LET lessonId == CHOOSE l \in lessonIds : TRUE
         IN  trim(bigAdd(lessonContent[lessonId].size,
                         sizeOf(lessonIds \ {lessonId}), 0))

DashboardRead == resp.op = "dashboard" /\ resp.status = 200

\* C27: the storageUsage of a dashboard gives as totalBytes the sum of the
\* sizes of the LessonContent records of the lessons of the course, as
\* files their number, and per provider the files and the bytes of the
\* records of that provider.
C27_StorageTotals ==
    DashboardRead =>
       LET usage == resp.body.storageUsage
           stored == storedLessons(resp.courseId)
           of(provider) == {l \in stored : lessonContent[l].provider = provider}
       IN  /\ usage.totalBytes = sizeOf(stored)
           /\ usage.files = Cardinality(stored)
           /\ \A provider \in Providers :
                 /\ usage.byProvider[provider].files = Cardinality(of(provider))
                 /\ usage.byProvider[provider].bytes = sizeOf(of(provider))

-----------------------------------------------------------------------------
(* Authentication before authorization *)

\* C28: a request to a protected endpoint that carries no valid access token
\* (none at all, a bad signature, a token of another type, an expired one, one
\* of a user the service does not know or of another tokenVersion) is
\* answered 401, and leaves the users, the sessions, the subscriptions and
\* the LMS store as they were.
validAccessToken(token) ==
    /\ token # NoToken
    /\ token.sig = env.accessSecret
    /\ token.type = "access"
    /\ now < token.exp
    /\ Has(usersById, token.sub)
    /\ usersById[token.sub].tokenVersion = token.tokenVersion

C28_AuthenticationFirst ==
    [][\A token \in GateTokens :
          (~validAccessToken(token) /\ GateRequest(token))
             => /\ resp'.status = 401
                /\ UNCHANGED <<usersByEmail, usersById, refreshSessions,
                               subscriptionsByUserId, lmsVars>>]_vars

\* C28 witness: the admin's refresh token, signed with the secret the access
\* tokens are signed with, was presented for the completion of an enrollment
\* that does not exist and was answered 401
C28_RefreshTokenTurnedAway ==
    /\ resp.op = "completion" /\ resp.status = 401
    /\ resp.error = "invalid_token_type"
    /\ resp.sub = loginUser(1).id
    /\ ~Has(enrollments, "e")

-----------------------------------------------------------------------------
(* Entities that do not exist *)

\* C29: GET /lms/lessons/:lessonId/content-url for a lesson that does not
\* exist answers an authenticated principal of any role with 404 NOT_FOUND.
C29_MissingLessonNotFound ==
    (/\ resp.op = "contentUrl"
     /\ resp.status # 401
     /\ ~Has(lessons, resp.lessonId))
        => resp.status = 404 /\ resp.error = "NOT_FOUND"

-----------------------------------------------------------------------------
(* Who may read a completion *)

\* The principals the completion of an enrollment is meant for
mayReadCompletion(token, enrollment) ==
    \/ token.role = "Admin"
    \/ /\ token.role = "Instructor"
       /\ courses[enrollment.courseId].createdBy = token.sub
    \/ /\ token.role = "Student"
       /\ enrollment.userId = token.sub

\* C30: the completion of an existing enrollment E is answered with 200 to an
\* authenticated principal exactly when it is an Admin, the Instructor who
\* created E's course, or the Student E.userId names; every other
\* authenticated principal is answered 403 forbidden.
C30_CompletionReaders ==
    [][\A token \in AccessTokens, enrollmentId \in {"e", "f"} :
          (/\ Has(enrollments, enrollmentId)
           /\ authenticate(token) = "ok"
           /\ GetCompletion(token, enrollmentId))
             => IF mayReadCompletion(token, enrollments[enrollmentId])
                THEN resp'.status = 200
                ELSE resp'.status = 403 /\ resp'.error = "forbidden"]_vars

\* C30 witness: a Student was refused the completion of an enrollment of
\* another Student, in a course an Instructor created
C30_OtherStudentRefused ==
    /\ resp.op = "completion" /\ resp.status = 403
    /\ Has(enrollments, "e")
    /\ usersById[resp.sub].role = "Student"
    /\ enrollments["e"].userId # resp.sub
    /\ ~Has(enrollments, "f")
    /\ usersById[courses["c"].createdBy].role = "Instructor"

-----------------------------------------------------------------------------
(* Rotation *)

\* C31: a successful rotation revokes the session of the presented token,
\* stores one new session, not revoked, of the same user and for the refresh
\* token it returns, and leaves every other session as it was.
C31_RotationFrame ==
    [][(resp'.op = "refresh" /\ resp'.status = 200)
          => LET old == resp'.token.sid
                 new == resp'.refreshToken.sid
             IN  /\ Has(refreshSessions, old) /\ ~Has(refreshSessions, new)
                 /\ DOMAIN refreshSessions' = DOMAIN refreshSessions \cup {new}
                 /\ refreshSessions[old].revokedAt = NoTime
                 /\ refreshSessions'[old] = [refreshSessions[old] EXCEPT !.revokedAt = now]
                 /\ refreshSessions'[new].revokedAt = NoTime
                 /\ refreshSessions'[new].userId = refreshSessions[old].userId
                 /\ refreshSessions'[new].tokenHash = sha256(resp'.refreshToken)
                 /\ \A sid \in DOMAIN refreshSessions \ {old} :
                       refreshSessions'[sid] = refreshSessions[sid]]_vars

\* C31 witness: a token was rotated while its user held another session that
\* is not revoked
C31_RotatedBesideAnotherSession ==
    /\ resp.op = "refresh" /\ resp.status = 200
    /\ \E sid \in DOMAIN refreshSessions \ {resp.token.sid, resp.refreshToken.sid} :
          /\ refreshSessions[sid].userId = resp.token.sub
          /\ refreshSessions[sid].revokedAt = NoTime

\* What the refresh route finds under the session id of a verified token
sessionInvalid(token) ==
    \/ ~Has(refreshSessions, token.sid)
    \/ refreshSessions[token.sid].revokedAt # NoTime
    \/ refreshSessions[token.sid].expiresAt <= now
sessionMismatch(token) ==
    \/ refreshSessions[token.sid].userId # token.sub
    \/ refreshSessions[token.sid].tokenHash # sha256(token)

\* C32: for a refresh token that verifies, a session that is missing,
\* revoked or expired is answered 401 refresh_session_invalid, whatever its
\* user id and hash; one that is none of these and whose user id or hash
\* differs from the token's is answered 401 refresh_session_mismatch; and a
\* rotation succeeds for none of them.
C32_SessionChecks ==
    [][\A token \in SessionTokens \cup SignedElsewhere :
          (/\ resp'.op = "refresh" /\ resp'.token = token
           /\ token.sig = env.refreshSecret /\ now < token.exp
           /\ token.type = "refresh")
             => IF sessionInvalid(token)
                THEN resp'.status = 401 /\ resp'.error = "refresh_session_invalid"
                ELSE IF sessionMismatch(token)
                THEN resp'.status = 401 /\ resp'.error = "refresh_session_mismatch"
                ELSE resp'.error \notin {"refresh_session_invalid",
                                         "refresh_session_mismatch"}]_vars

\* C32 witness: a token that names an expired session and does not hash to
\* the stored hash was answered refresh_session_invalid
C32_ExpiredBeforeMismatch ==
    /\ resp.op = "refresh" /\ resp.status = 401
    /\ resp.error = "refresh_session_invalid"
    /\ Has(refreshSessions, resp.token.sid)
    /\ refreshSessions[resp.token.sid].revokedAt = NoTime
    /\ refreshSessions[resp.token.sid].expiresAt <= now
    /\ refreshSessions[resp.token.sid].tokenHash # sha256(resp.token)

-----------------------------------------------------------------------------
(* A failed identity exchange *)

\* C33: when the identity exchange of a suspended callback fails, the
\* callback answers 401 google_auth_failed and is over; no user, subscription
\* or session is created and no token issued, and the state of the callback
\* is not in oauthStates, so that a callback that repeats it is answered
\* invalid_state.
C33_FailedExchange ==
    [][(resp'.op = "exchange" /\ resp'.status = 401)
          => /\ resp'.error = "google_auth_failed"
             /\ UNCHANGED <<usersByEmail, usersById, subscriptionsByUserId,
                            refreshSessions, issuedTokens, nextId>>
             /\ \E state \in pendingExchange :
                   /\ pendingExchange' = pendingExchange \ {state}
                   /\ state \in DOMAIN issuedStates
                   /\ ~Has(oauthStates', state)]_vars

\* C33 witness: an exchange has failed while another callback was suspended,
\* and no user has been created
C33_ExchangeFailedAlone ==
    /\ resp.op = "exchange" /\ resp.status = 401
    /\ pendingExchange # {}
    /\ usersById = EmptyMap /\ refreshSessions = EmptyMap
    /\ subscriptionsByUserId = EmptyMap /\ issuedTokens = {}

-----------------------------------------------------------------------------
(* The indices and the tables *)

\* Full scans of the entity tables
modulesOfCourse(courseId) == {m \in DOMAIN modules : modules[m].courseId = courseId}
lessonsOfCourse(courseId) ==
    {l \in DOMAIN lessons : lessons[l].moduleId \in modulesOfCourse(courseId)}
enrollmentsInCourse(courseId) ==
    {e \in DOMAIN enrollments : enrollments[e].courseId = courseId}

\* C34: for every course, the dashboard computed from the indices counts the
\* modules, lessons and enrollments a scan of the tables finds for the
\* course, and studentProgress holds one entry for each of these
\* enrollments and no other.
C34_IndicesAgreeWithTables ==
    \A courseId \in DOMAIN courses :
       LET body == instructorDashboard(courseId)
       IN  /\ body.course.modules = Cardinality(modulesOfCourse(courseId))
           /\ body.course.lessons = Cardinality(lessonsOfCourse(courseId))
           /\ body.course.enrollments = Cardinality(enrollmentsInCourse(courseId))
           /\ Len(body.studentProgress) = Cardinality(enrollmentsInCourse(courseId))
           /\ {body.studentProgress[i].enrollmentId :
                  i \in DOMAIN body.studentProgress} = enrollmentsInCourse(courseId)

\* C34 witness: a course with a module, two lessons and two enrollments,
\* after a write that was refused
C34_TwoLessonsTwoEnrollments ==
    /\ Cardinality(lessonsOfCourse("c")) = 2
    /\ Cardinality(enrollmentsInCourse("c")) = 2
    /\ Cardinality(modulesOfCourse("c")) = 1
    /\ resp.status = 409

-----------------------------------------------------------------------------
(* Callbacks suspended in the identity exchange *)

\* C35: while a callback is suspended in the identity exchange, every other
\* request is handled: a callback for another state, a rotation, a logout and
\* a course creation can each take their step, and the steps they take leave
\* the callback suspended; the step that suspends a callback writes no user,
\* session or subscription, and the step that resumes it finds the user a
\* request handled in between has created.
C35_NoLockWhileSuspended ==
    /\ [](pendingExchange # {}
            => /\ \A state \in DOMAIN issuedStates : ENABLED CallbackBegin(state)
               /\ \A token \in WaitingTokens(env.refreshSecret) :
                     /\ ENABLED Logout(token)
                     /\ (nextId < SessionIds
                           => ENABLED (refreshWithin(token, SessionIds)
                                          /\ UNCHANGED refreshRequests))
               /\ \A token \in WaitingTokens(env.accessSecret) :
                     ENABLED PostCourses(token, "c"))
    /\ [][/\ (resp'.op \in {"refresh", "logout", "courses"}
                => pendingExchange' = pendingExchange)
           /\ (resp'.op = "callback"
                => /\ pendingExchange \subseteq pendingExchange'
                   /\ UNCHANGED <<usersByEmail, usersById, refreshSessions,
                                  subscriptionsByUserId, issuedTokens, lmsVars>>)
           /\ ((resp'.op = "exchange" /\ resp'.status = 200)
                => \A l \in logins' \ logins :
                      IF Has(usersByEmail, l.accessToken.email)
                      THEN /\ usersById' = usersById
                           /\ l.accessToken.sub = usersByEmail[l.accessToken.email].id
                      ELSE l.accessToken.sub \notin DOMAIN usersById)]_vars

\* C35 witness: a course was created with the token of a completed login
\* while two callbacks were suspended
C35_CourseCreatedDuringWait ==
    /\ resp.op = "courses" /\ resp.status = 201
    /\ Cardinality(pendingExchange) = 2

-----------------------------------------------------------------------------
(* Progress rows of different pairs *)

\* C36: the Progress rows of two different (enrollment, lesson) pairs are
\* two rows: no progress id stands twice in the index of an enrollment, and
\* none stands in the indices of two enrollments.
C36_PairsShareNoRow ==
    \A e1, e2 \in DOMAIN progressIdsByEnrollment :
       \A i \in DOMAIN progressIdsByEnrollment[e1],
          j \in DOMAIN progressIdsByEnrollment[e2] :
          (e1 # e2 \/ i # j)
             => progressIdsByEnrollment[e1][i] # progressIdsByEnrollment[e2][j]

-----------------------------------------------------------------------------
(* Writes that end in an error *)

LmsWrites == {"courses", "modules", "lessons", "enrollments", "progress", "content"}
LmsErrors == {"DUPLICATE", "INVALID_RELATION", "NOT_FOUND", "ACCESS_DENIED"}

\* C37: a write route that answers with an error of the store (DUPLICATE,
\* INVALID_RELATION, NOT_FOUND, ACCESS_DENIED) leaves every table and every
\* index as it was.
C37_FailedWriteChangesNothing ==
    [][(resp'.op \in LmsWrites /\ resp'.error \in LmsErrors)
          => resp'.status \in {400, 403, 404, 409} /\ UNCHANGED lmsVars]_vars

\* C37 witness: a progress update of a Student for the enrollment of another
\* Student was refused by the store, with a row in place for the pair
C37_ForeignUpdateRefused ==
    /\ resp.op = "progress" /\ resp.error = "ACCESS_DENIED"
    /\ Has(progress, joinKey("e", "l"))
    /\ progress[joinKey("e", "l")].status = "in_progress"

-----------------------------------------------------------------------------
(* What revokes a session *)

\* C38: a session that was not revoked is revoked by a step only if the step
\* is a rotation or a logout that succeeds for the token the session was
\* issued for; and a refresh that is rejected leaves the sessions, the users
\* and the subscriptions as they were and issues nothing, so that every other
\* token is answered after it as it would have been before.
C38_RevokedByOwnTokenOnly ==
    [][/\ \A sid \in DOMAIN refreshSessions :
             (refreshSessions[sid].revokedAt = NoTime
                 /\ refreshSessions'[sid].revokedAt # NoTime)
                => /\ resp'.op \in {"refresh", "logout"} /\ resp'.status = 200
                   /\ resp'.token.sid = sid
                   /\ refreshSessions[sid].tokenHash = sha256(resp'.token)
       /\ (resp'.op = "refresh" /\ resp'.status # 200)
             => /\ resp'.status = 401
                /\ UNCHANGED <<refreshSessions, usersByEmail, usersById,
                               subscriptionsByUserId, issuedTokens, nextId>>]_vars

\* C38 witness: a rotated token was presented again and rejected, and the
\* session its rotation issued is neither revoked nor expired
C38_ReplayLeavesSuccessor ==
    /\ resp.op = "refresh" /\ resp.status = 401
    /\ resp.error = "refresh_session_invalid"
    /\ Has(rotatedTokens, resp.token)
    /\ \E sid \in successors[resp.token] :
          /\ refreshSessions[sid].revokedAt = NoTime
          /\ refreshSessions[sid].expiresAt > now

-----------------------------------------------------------------------------
(* Revocation is permanent *)

\* C39: every step keeps every session in the map with the userId, the
\* tokenHash and the expiresAt it had, and keeps the revokedAt of a session
\* that is revoked.
C39_RevocationPermanent ==
    [][\A sid \in DOMAIN refreshSessions :
          /\ sid \in DOMAIN refreshSessions'
          /\ refreshSessions'[sid].userId = refreshSessions[sid].userId
          /\ refreshSessions'[sid].tokenHash = refreshSessions[sid].tokenHash
          /\ refreshSessions'[sid].expiresAt = refreshSessions[sid].expiresAt
          /\ refreshSessions[sid].revokedAt # NoTime
                => refreshSessions'[sid].revokedAt = refreshSessions[sid].revokedAt]_vars

\* C39 witness: a logout was answered for a token that had been rotated
\* earlier, and its session carries the time of the rotation
C39_LogoutAfterRotation ==
    /\ resp.op = "logout" /\ resp.status = 200
    /\ Has(rotatedTokens, resp.token)
    /\ refreshSessions[resp.token.sid].revokedAt = rotatedTokens[resp.token]
    /\ rotatedTokens[resp.token] < now

-----------------------------------------------------------------------------
(* Whose subscription records exist *)

\* C40: every subscription record is stored under the id of a user of the
\* user store and names that user, whatever userId the enrollment requests
\* of Admins and Instructors have carried.
C40_SubscriptionsOfUsers ==
    \A userId \in DOMAIN subscriptionsByUserId :
        /\ Has(usersById, userId)
        /\ subscriptionsByUserId[userId].userId = userId

====
